---- MODULE Spec2Model ----
(***************************************************************************)
(* Model of the scythe storage engine (src/src/storage.rs) and of the      *)
(* condition evaluator it uses (src/src/parser.rs).                        *)
(*                                                                         *)
(* The database directory is modelled as a map from file name to file      *)
(* content.  A data file is a sequence of lines, each line the JSON array  *)
(* of a row kept as the sequence of its element texts; an index file is a  *)
(* sequence of `key<TAB>offset` lines.  Byte lengths are those of the      *)
(* rendered text, so that the offsets stored in index files and the        *)
(* in-place writes of create_index are computed as the code computes them. *)
(***************************************************************************)
EXTENDS Integers, Sequences, FiniteSets, TLC

VARIABLES
    metadata,       \* Storage.metadata.tables : table name -> TableMetadata
    metadata_file,  \* metadata.json : whether it exists, and its text
    files,          \* data and index files of db_dir : file name -> lines
    last            \* the most recent storage call and its result

vars == <<metadata, metadata_file, files, last>>

----------------------------------------------------------------------------
(* Bounds of the model *)

\* total number of lines held by all data files
MaxRows == 2

\* number of rows of the table whose rows are sorted
MaxSortRows == 3

----------------------------------------------------------------------------
(* Values, columns and their JSON text *)

Null == [tag |-> "Null"]
Integer(i) == [tag |-> "Integer", i |-> i]
Real(r) == [tag |-> "Real", r |-> r]

\* f64 payloads of the model: a finite number, the two zeros and +infinity
RealLits == {"1.5", "0.0", "-0.0", "inf"}

Values == {Null} \cup {Integer(i) : i \in 1..3} \cup {Real(r) : r \in RealLits}

DataTypes == {"Integer", "Text", "Boolean", "Real"}

Column(name, data_type) == [name |-> name, data_type |-> data_type]

\* f64 == : the two zeros compare equal, infinity equals itself
f64_eq(a, b) == a = b \/ {a, b} = {"0.0", "-0.0"}

\* derived PartialEq of Value
value_eq(a, b) ==
    /\ a.tag = b.tag
    /\ CASE a.tag = "Null" -> TRUE
         [] a.tag = "Integer" -> a.i = b.i
         [] a.tag = "Real" -> f64_eq(a.r, b.r)
         [] a.tag = "Text" -> a.s = b.s
         [] a.tag = "Boolean" -> a.b = b.b

\* serde_json text of an f64: non-finite numbers are written as null
f64_json(r) == IF r = "inf" THEN "null" ELSE r

\* serde_json text of a Value (externally tagged enum); the texts of the model
\* hold no character that JSON escapes
to_json_value(v) ==
    CASE v.tag = "Null" -> "\"Null\""
      [] v.tag = "Integer" -> "{\"Integer\":" \o ToString(v.i) \o "}"
      [] v.tag = "Real" -> "{\"Real\":" \o f64_json(v.r) \o "}"
      [] v.tag = "Text" -> "{\"Text\":\"" \o v.s \o "\"}"
      [] v.tag = "Boolean" -> "{\"Boolean\":" \o (IF v.b THEN "true" ELSE "false") \o "}"

\* serde_json reading of one array element as a Value: the inverse of
\* to_json_value, except that null is not accepted where an f64 is expected
from_json_value(s) ==
    LET cands == {v \in Values : to_json_value(v) = s /\ (v.tag = "Real" => f64_json(v.r) # "null")}
    IN  IF cands = {} THEN [ok |-> FALSE, value |-> Null]
        ELSE [ok |-> TRUE, value |-> CHOOSE v \in cands : TRUE]

\* serde_json::to_string(&Vec<Value>) kept as the sequence of element texts
serialize_row(values) == [k \in 1..Len(values) |-> to_json_value(values[k])]

\* serde_json::from_str::<Vec<Value>> of a stored line
deserialize_row(line) ==
    IF \A k \in 1..Len(line) : from_json_value(line[k]).ok
    THEN [ok |-> TRUE, row |-> [k \in 1..Len(line) |-> from_json_value(line[k]).value]]
    ELSE [ok |-> FALSE, row |-> <<>>]

RECURSIVE join_json(_)
join_json(elems) ==
    IF elems = <<>> THEN ""
    ELSE IF Len(elems) = 1 THEN elems[1]
    ELSE elems[1] \o "," \o join_json(Tail(elems))

\* the text of a JSON array with the given element texts
json_array(elems) == "[" \o join_json(elems) \o "]"

----------------------------------------------------------------------------
(* Files *)

table_path(table_name) == table_name \o ".data"

index_path(table_name, index_name) == table_name \o "_" \o index_name \o ".idx"

\* bytes of one data-file line, newline included
data_line_len(line) == Len(json_array(line)) + 1

RECURSIVE data_len(_)
data_len(lines) ==
    IF lines = <<>> THEN 0
    ELSE data_line_len(lines[1]) + data_len(Tail(lines))

\* byte offset at which line k of a data file starts
line_offset(lines, k) == data_len(SubSeq(lines, 1, k - 1))

\* one index-file line `key<TAB>offset`; torn marks the rest of a line whose
\* head was overwritten in place
IndexEntry(key, offset) ==
    [torn |-> FALSE, key |-> key, offset |-> offset,
     bytes |-> Len(key) + 1 + Len(ToString(offset)) + 1]

TornLine(bytes) == [torn |-> TRUE, key |-> "", offset |-> 0, bytes |-> bytes]

RECURSIVE index_len(_)
index_len(lines) ==
    IF lines = <<>> THEN 0
    ELSE lines[1].bytes + index_len(Tail(lines))

RECURSIVE skip_bytes(_, _)
\* what is left of a file's lines behind its first n bytes
skip_bytes(lines, n) ==
    IF n = 0 \/ lines = <<>> THEN lines
    ELSE IF lines[1].bytes <= n THEN skip_bytes(Tail(lines), n - lines[1].bytes)
    ELSE <<TornLine(lines[1].bytes - n)>> \o Tail(lines)

\* OpenOptions::new().create(true).write(true): the file keeps its content
\* and the entries are written from byte 0 over it
write_from_start(old, entries) == entries \o skip_bytes(old, index_len(entries))

\* OpenOptions::new().create(true).append(true) followed by one write
append_line(fs, path, line) ==
    IF path \in DOMAIN fs
    THEN [fs EXCEPT ![path] = Append(@, line)]
    ELSE fs @@ (path :> <<line>>)

remove_file(fs, path) == [p \in (DOMAIN fs) \ {path} |-> fs[p]]

----------------------------------------------------------------------------
(* Storage state and results *)

\* what the file system does to the next write of metadata.json
IoOutcomes == {"ok", "create_fails", "write_fails"}

\* page_size: 1000 in Storage::new
page_size == 1000

\* a Storage over its directory, in io what the file system will do to the
\* call's write of metadata.json, and in writes the files the call has written
\* so far, in the order of the writes
State(m, mf, fs) ==
    [metadata |-> m, metadata_file |-> mf, files |-> fs, page_size |-> page_size,
     io |-> "ok", writes |-> <<>>]

\* the call creates, appends to or writes into a data file ("data") or an index
\* file ("index"), removes a file ("remove") or rewrites metadata.json ("catalog")
wrote(S, kind, path) == [S EXCEPT !.writes = Append(@, [kind |-> kind, path |-> path])]

Cur == State(metadata, metadata_file, files)

\* a call that returned Err(message) from state S; a message is kept without the
\* names and values formatted into it ("Column {} not found", "Type mismatch: ..."),
\* an error of serde_json as "Serialization", an error of the file system as "IO"
Err(S, message) == [state |-> S, result |-> message]

Ok(S) == [state |-> S, result |-> "ok"]

\* a file of the directory that does not exist
NoFile == [exists |-> FALSE, contents |-> <<>>]

\* a file holding the given texts; File::create leaves WrittenFile(<<>>)
WrittenFile(contents) == [exists |-> TRUE, contents |-> contents]

\* serde_json's text of a usize
usize_json(n) == ToString(n)

\* serde_json's reading of a usize
usize_from_json(text) == CHOOSE n \in 0..99 : ToString(n) = text

\* serde_json::to_string_pretty(&self.metadata): one member per key of the tables
\* map, the row count as a decimal numeral
to_string_pretty(m) ==
    [tables |-> [t \in DOMAIN m |->
                    [name |-> m[t].name,
                     columns |-> m[t].columns,
                     row_count |-> usize_json(m[t].row_count),
                     indexes |-> m[t].indexes]]]

\* serde_json::from_str::<DatabaseMetadata>(&contents)
from_str(doc) ==
    [t \in DOMAIN doc.tables |->
        [name |-> doc.tables[t].name,
         columns |-> doc.tables[t].columns,
         row_count |-> usize_from_json(doc.tables[t].row_count),
         indexes |-> doc.tables[t].indexes]]

\* save_metadata that writes nothing
save_metadata_skipped(S) == S

\* Storage::save_metadata: File::create truncates metadata.json, write_all
\* writes the text of the whole catalog; either of the two can fail
save_metadata(S) ==
    CASE S.io = "ok" ->
             wrote([S EXCEPT !.metadata_file = WrittenFile(<<to_string_pretty(S.metadata)>>)],
                   "catalog", "metadata.json")
      [] S.io = "create_fails" -> S
      [] S.io = "write_fails" ->
             wrote([S EXCEPT !.metadata_file = WrittenFile(<<>>)],
                   "catalog", "metadata.json")

\* self.save_metadata()?
saved(S) == IF S.io = "ok" THEN Ok(save_metadata(S)) ELSE Err(save_metadata(S), "IO")

\* the catalog Storage::new reads from metadata.json
load_metadata(file) ==
    IF ~file.exists \/ file.contents = <<>> THEN <<>>
    ELSE from_str(file.contents[1])

\* Storage::new over the directory S leaves behind
new(S) == Ok([S EXCEPT !.metadata = load_metadata(S.metadata_file)])

\* Iterator::position: the first position that matches, 0 for None
first_position(hits) ==
    IF hits = {} THEN 0 ELSE CHOOSE k \in hits : \A j \in hits : k <= j

\* columns.iter().position(|col| col.name == col_name), 0 for None
column_position(columns, col_name) ==
    LET named(col) == col.name = col_name IN first_position({i \in 1..Len(columns) : named(columns[i])})

----------------------------------------------------------------------------
(* create_table *)

\* create_table without the look for a table of the same name
create_table_unchecked(S, name, columns) ==
    LET table == [name |-> name, columns |-> columns, row_count |-> 0, indexes |-> <<>>]
        fs1 == [p \in (DOMAIN S.files) \cup {table_path(name)} |->
                   IF p = table_path(name) THEN <<>> ELSE S.files[p]]
        m1 == [t \in (DOMAIN S.metadata) \cup {name} |->
                   IF t = name THEN table ELSE S.metadata[t]]
    IN  saved([wrote(S, "data", table_path(name)) EXCEPT !.metadata = m1, !.files = fs1])

create_table(S, name, columns) ==
    IF name \in DOMAIN S.metadata THEN Err(S, "Table already exists")
    ELSE
        LET table == [name |-> name, columns |-> columns, row_count |-> 0, indexes |-> <<>>]
            \* File::create truncates an existing file
            fs1 == [p \in (DOMAIN S.files) \cup {table_path(name)} |->
                       IF p = table_path(name) THEN <<>> ELSE S.files[p]]
            m1 == [t \in (DOMAIN S.metadata) \cup {name} |->
                       IF t = name THEN table ELSE S.metadata[t]]
        IN  saved([wrote(S, "data", table_path(name)) EXCEPT !.metadata = m1, !.files = fs1])

----------------------------------------------------------------------------
(* insert_row *)

None == [some |-> FALSE]
Some(x) == [some |-> TRUE, v |-> x]

\* the value col_map holds for a name: the one inserted last under it
col_map_get(col_names, values, name) ==
    LET hits == {i \in 1..Len(col_names) : col_names[i] = name}
    IN  IF hits = {} THEN None
        ELSE Some(values[CHOOSE i \in hits : \A j \in hits : j <= i])

\* ordered_values without the Null pushed for a schema column the list does not name
ordered_values_named_only(table_columns, col_names, values) ==
    LET named == SelectSeq(table_columns,
                           LAMBDA col : col_map_get(col_names, values, col.name).some)
    IN  [k \in 1..Len(named) |-> col_map_get(col_names, values, named[k].name).v]

\* values re-ordered into schema column order, Null where the list names no such column
ordered_values(table_columns, col_names, values) ==
    [k \in 1..Len(table_columns) |->
        LET got == col_map_get(col_names, values, table_columns[k].name)
        IN  IF got.some THEN got.v ELSE Null]

\* the match of value variant against declared DataType
type_matches(value, data_type) ==
    \/ value.tag = "Null"
    \/ value.tag = data_type

\* type_check that lets every value through
type_check_skipped(values, table_columns) == TRUE

\* the per-position type check of insert_row
type_check(values, table_columns) ==
    \A i \in 1..Len(values) : type_matches(values[i], table_columns[i].data_type)

\* the key of a row under an index: the JSON array of the values at the columns' positions
key_of(values, positions) ==
    json_array(serialize_row([k \in 1..Len(positions) |-> values[positions[k]]]))

update_index(S, table_name, index_name, values, position) ==
    IF table_name \notin DOMAIN S.metadata THEN Err(S, "Table not found")
    ELSE
        LET table_metadata == S.metadata[table_name]
            named(idx) == idx.name = index_name
            at == first_position({i \in 1..Len(table_metadata.indexes) : named(table_metadata.indexes[i])})
        IN  IF at = 0 THEN Err(S, "Index not found")
            ELSE
                LET index == table_metadata.indexes[at]
                    positions == [k \in 1..Len(index.columns) |->
                                     column_position(table_metadata.columns, index.columns[k])]
                IN  IF \E k \in 1..Len(positions) : positions[k] = 0
                    THEN Err(S, "Column not found in table schema")
                    ELSE Ok([wrote(S, "index", index.file_path) EXCEPT !.files =
                                append_line(@, index.file_path,
                                            IndexEntry(key_of(values, positions), position))])

RECURSIVE update_indexes(_, _, _, _, _)
\* the loop of insert_row over the names of the table's indexes
update_indexes(S, table_name, index_names, values, position) ==
    IF index_names = <<>> THEN Ok(S)
    ELSE
        LET r == update_index(S, table_name, index_names[1], values, position)
        IN  IF r.result # "ok" THEN r
            ELSE update_indexes(r.state, table_name, Tail(index_names), values, position)

\* the row insert_row will store, or the error of its checks
checked_values(table_columns, columns, values) ==
    IF columns.some /\ Len(columns.v) # Len(values)
    THEN [result |-> "Number of column names does not match number of values", values |-> <<>>]
    ELSE IF ~columns.some /\ Len(table_columns) # Len(values)
    THEN [result |-> "Number of values does not match number of columns", values |-> <<>>]
    ELSE
        LET vals == IF columns.some
                    THEN ordered_values(table_columns, columns.v, values)
                    ELSE values
        IN  IF ~type_check(vals, table_columns)
            THEN [result |-> "Type mismatch", values |-> vals]
            ELSE [result |-> "ok", values |-> vals]

\* bump_row_count that leaves the count as it is
bump_row_count_skipped(m, table_name) == m

\* table_metadata.row_count += 1
bump_row_count(m, table_name) == [m EXCEPT ![table_name].row_count = @ + 1]

\* append_row that saves the catalog after the index entries are written
append_row_saved_last(S, table_name, vals) ==
    LET path == table_path(table_name)
        position == IF path \in DOMAIN S.files THEN data_len(S.files[path]) ELSE 0
        fs1 == append_line(S.files, path, serialize_row(vals))
        indexes == S.metadata[table_name].indexes
        index_names == [k \in 1..Len(indexes) |-> indexes[k].name]
        u == update_indexes([wrote(S, "data", path) EXCEPT
                                !.metadata = bump_row_count(S.metadata, table_name),
                                !.files = fs1],
                            table_name, index_names, vals, position)
    IN  IF u.result # "ok" THEN u ELSE saved(u.state)

\* the writes of insert_row: the line, the row count, the catalog, the index entries
append_row(S, table_name, vals) ==
    LET path == table_path(table_name)
        \* file.seek(SeekFrom::End(0))
        position == IF path \in DOMAIN S.files THEN data_len(S.files[path]) ELSE 0
        fs1 == append_line(S.files, path, serialize_row(vals))
        indexes == S.metadata[table_name].indexes
        index_names == [k \in 1..Len(indexes) |-> indexes[k].name]
        s == saved([wrote(S, "data", path) EXCEPT
                        !.metadata = bump_row_count(S.metadata, table_name),
                        !.files = fs1])
    IN  IF s.result # "ok" THEN s
        ELSE update_indexes(s.state, table_name, index_names, vals, position)

\* insert_row that writes the row before it looks at the types
insert_row_checked_late(S, table_name, columns, values) ==
    IF table_name \notin DOMAIN S.metadata THEN Err(S, "Table not found")
    ELSE
        LET c == checked_values(S.metadata[table_name].columns, columns, values)
        IN  IF c.result = "Type mismatch"
            THEN Err(append_row(S, table_name, c.values).state, c.result)
            ELSE IF c.result # "ok" THEN Err(S, c.result)
            ELSE append_row(S, table_name, c.values)

insert_row(S, table_name, columns, values) ==
    IF table_name \notin DOMAIN S.metadata THEN Err(S, "Table not found")
    ELSE
        LET c == checked_values(S.metadata[table_name].columns, columns, values)
        IN  IF c.result # "ok" THEN Err(S, c.result)
            ELSE append_row(S, table_name, c.values)

----------------------------------------------------------------------------
(* create_index, drop_index, drop_table *)

RECURSIVE backfill(_, _, _, _)
\* the scan of create_index over the data file: the entries written before the
\* first line that fails to deserialize, and whether every line was read
backfill(lines, k, col_indices, entries) ==
    IF k > Len(lines) THEN [ok |-> TRUE, entries |-> entries]
    ELSE
        LET d == deserialize_row(lines[k])
        IN  IF ~d.ok THEN [ok |-> FALSE, entries |-> entries]
            ELSE
                LET key_values == [j \in 1..Len(col_indices) |->
                                      IF col_indices[j] <= Len(d.row)
                                      THEN d.row[col_indices[j]] ELSE Null]
                    key == json_array(serialize_row(key_values))
                IN  backfill(lines, k + 1, col_indices,
                             Append(entries, IndexEntry(key, line_offset(lines, k))))

\* create_index_check without the look for an index of the same name
create_index_check_any_name(S, table_name, index_name, columns) ==
    IF table_name \notin DOMAIN S.metadata THEN "Table does not exist"
    ELSE IF \E k \in 1..Len(columns) :
                column_position(S.metadata[table_name].columns, columns[k]) = 0
    THEN "Column not found"
    ELSE "ok"

\* the checks of create_index: "ok" or the error returned before anything is written
create_index_check(S, table_name, index_name, columns) ==
    IF table_name \notin DOMAIN S.metadata THEN "Table does not exist"
    ELSE
        LET table_metadata == S.metadata[table_name]
        IN  IF \E k \in 1..Len(table_metadata.indexes) :
                    table_metadata.indexes[k].name = index_name
            THEN "Index already exists"
            ELSE IF \E k \in 1..Len(columns) :
                    column_position(table_metadata.columns, columns[k]) = 0
            THEN "Column not found"
            ELSE "ok"

\* the writes of create_index: the index file is opened, the descriptor pushed,
\* the catalog saved and the entries of the existing rows written
build_index(S, table_name, index_name, columns) ==
    LET table_metadata == S.metadata[table_name]
        path == index_path(table_name, index_name)
        \* create(true).write(true): an existing file is opened as it is
        old == IF path \in DOMAIN S.files THEN S.files[path] ELSE <<>>
        index == [name |-> index_name, columns |-> columns, file_path |-> path]
        col_indices == [k \in 1..Len(columns) |->
                           column_position(table_metadata.columns, columns[k])]
        m1 == [S.metadata EXCEPT ![table_name].indexes = Append(@, index)]
        fs1 == [p \in (DOMAIN S.files) \cup {path} |->
                   IF p = path THEN old ELSE S.files[p]]
        s == saved([wrote(S, "index", path) EXCEPT !.metadata = m1, !.files = fs1])
        S1 == s.state
        data_path == table_path(table_name)
    IN  IF s.result # "ok" THEN s
        ELSE IF data_path \notin DOMAIN S1.files THEN Err(S1, "IO")
        ELSE
            LET b == backfill(S1.files[data_path], 1, col_indices, <<>>)
                \* one writeln! per line of the data file that was read
                written == [k \in 1..Len(b.entries) |-> [kind |-> "index", path |-> path]]
                S2 == [S1 EXCEPT !.files[path] = write_from_start(old, b.entries),
                                 !.writes = @ \o written]
            IN  IF b.ok THEN Ok(S2) ELSE Err(S2, "Serialization")

create_index(S, table_name, index_name, columns) ==
    LET e == create_index_check(S, table_name, index_name, columns)
    IN  IF e # "ok" THEN Err(S, e)
        ELSE build_index(S, table_name, index_name, columns)

\* the descriptors left when the one at index_pos is removed
remove_at(indexes, index_pos) ==
    [k \in 1..(Len(indexes) - 1) |-> IF k < index_pos THEN indexes[k] ELSE indexes[k + 1]]

\* drop_index that deletes the file of the index it was asked for but removes
\* the first descriptor of the table
drop_index_first_descriptor(S, table_name, index_name) ==
    IF table_name \notin DOMAIN S.metadata THEN Err(S, "Table not found")
    ELSE
        LET table_metadata == S.metadata[table_name]
            named(idx) == idx.name = index_name
            index_pos == first_position({i \in 1..Len(table_metadata.indexes) : named(table_metadata.indexes[i])})
        IN  IF index_pos = 0 THEN Err(S, "Index not found")
            ELSE
                LET path == table_metadata.indexes[index_pos].file_path
                    fs1 == remove_file(S.files, path)
                    m1 == [S.metadata EXCEPT ![table_name].indexes =
                              remove_at(table_metadata.indexes, 1)]
                IN  saved([(IF path \in DOMAIN S.files THEN wrote(S, "remove", path) ELSE S)
                               EXCEPT !.metadata = m1, !.files = fs1])

drop_index(S, table_name, index_name) ==
    IF table_name \notin DOMAIN S.metadata THEN Err(S, "Table not found")
    ELSE
        LET table_metadata == S.metadata[table_name]
            named(idx) == idx.name = index_name
            index_pos == first_position({i \in 1..Len(table_metadata.indexes) : named(table_metadata.indexes[i])})
        IN  IF index_pos = 0 THEN Err(S, "Index not found")
            ELSE
                LET path == table_metadata.indexes[index_pos].file_path
                    fs1 == remove_file(S.files, path)
                    m1 == [S.metadata EXCEPT ![table_name].indexes =
                              remove_at(table_metadata.indexes, index_pos)]
                IN  saved([(IF path \in DOMAIN S.files THEN wrote(S, "remove", path) ELSE S)
                               EXCEPT !.metadata = m1, !.files = fs1])

\* drop_indexes that drops none
drop_indexes_skipped(S, name, index_names) == Ok(S)

RECURSIVE drop_indexes(_, _, _)
\* index_files.iter().for_each(|index_name| self.drop_index(name, index_name).unwrap())
drop_indexes(S, name, index_names) ==
    IF index_names = <<>> THEN Ok(S)
    ELSE
        LET r == drop_index(S, name, index_names[1])
        IN  IF r.result # "ok" THEN Err(r.state, "panic")
            ELSE drop_indexes(r.state, name, Tail(index_names))

drop_table(S, name) ==
    IF name \notin DOMAIN S.metadata THEN Err(S, "Table does not exist")
    ELSE
        LET S0 == IF table_path(name) \in DOMAIN S.files
                  THEN wrote(S, "remove", table_path(name)) ELSE S
            S1 == [S0 EXCEPT !.files = remove_file(@, table_path(name))]
            index_files == [k \in 1..Len(S.metadata[name].indexes) |->
                               S.metadata[name].indexes[k].name]
            r == drop_indexes(S1, name, index_files)
        IN  IF r.result # "ok" THEN r
            ELSE
                LET m1 == [t \in (DOMAIN r.state.metadata) \ {name} |-> r.state.metadata[t]]
                IN  saved([r.state EXCEPT !.metadata = m1])

----------------------------------------------------------------------------
(* Value ordering and Condition::evaluate *)

\* rank of the f64 payloads under f64::partial_cmp
f64_rank(r) == IF r = "inf" THEN 3 ELSE IF r = "1.5" THEN 2 ELSE 1

int_cmp(a, b) == IF a < b THEN "Less" ELSE IF a = b THEN "Equal" ELSE "Greater"

\* impl PartialOrd for Value; "None" where the variants differ and neither is Null
partial_cmp(a, b) ==
    CASE a.tag = "Integer" /\ b.tag = "Integer" -> int_cmp(a.i, b.i)
      [] a.tag = "Real" /\ b.tag = "Real" -> int_cmp(f64_rank(a.r), f64_rank(b.r))
      [] a.tag = "Null" /\ b.tag = "Null" -> "Equal"
      [] a.tag = "Null" /\ b.tag # "Null" -> "Less"
      [] a.tag # "Null" /\ b.tag = "Null" -> "Greater"
      [] OTHER -> "None"

\* impl Ord for Value: partial_cmp(..).unwrap_or(Less)
cmp(a, b) == IF partial_cmp(a, b) = "None" THEN "Less" ELSE partial_cmp(a, b)

Equal(column, value) == [kind |-> "Equal", column |-> column, value |-> value]
NotEqual(column, value) == [kind |-> "NotEqual", column |-> column, value |-> value]
GreaterThan(column, value) == [kind |-> "GreaterThan", column |-> column, value |-> value]
LessThan(column, value) == [kind |-> "LessThan", column |-> column, value |-> value]
GreaterEqual(column, value) == [kind |-> "GreaterEqual", column |-> column, value |-> value]
LessEqual(column, value) == [kind |-> "LessEqual", column |-> column, value |-> value]
IsNull(column) == [kind |-> "IsNull", column |-> column]
IsNotNull(column) == [kind |-> "IsNotNull", column |-> column]
And(left, right) == [kind |-> "And", left |-> left, right |-> right]
Or(left, right) == [kind |-> "Or", left |-> left, right |-> right]

DigitChars == <<"0", "1", "2", "3", "4", "5", "6", "7", "8", "9">>

RECURSIVE decimal(_)
\* the decimal digits of a natural number, as characters
decimal(n) ==
    IF n < 10 THEN <<DigitChars[n + 1]>>
    ELSE decimal(n \div 10) \o <<DigitChars[(n % 10) + 1]>>

\* Display of i64
display_i64(i) == IF i < 0 THEN <<"-">> \o decimal(0 - i) ELSE decimal(i)

\* Display of f64 on the payloads of the model
display_f64(r) ==
    CASE r = "1.5" -> <<"1", ".", "5">>
      [] r = "0.0" -> <<"0">>
      [] r = "-0.0" -> <<"-", "0">>
      [] r = "inf" -> <<"i", "n", "f">>

\* impl Display for Value: the text of a value, a sequence of characters; the
\* payload of a Text value is such a sequence
to_string(v) ==
    CASE v.tag = "Integer" -> display_i64(v.i)
      [] v.tag = "Text" -> v.s
      [] v.tag = "Boolean" -> IF v.b THEN <<"t", "r", "u", "e">> ELSE <<"f", "a", "l", "s", "e">>
      [] v.tag = "Real" -> display_f64(v.r)
      [] v.tag = "Null" -> <<"N", "U", "L", "L">>

\* str::contains that only looks at the start of the text
contains_at_start(text, pattern) ==
    Len(pattern) <= Len(text) /\ SubSeq(text, 1, Len(pattern)) = pattern

\* str::contains with a text as pattern
contains(text, pattern) ==
    \E at \in 0..(Len(text) - Len(pattern)) :
        SubSeq(text, at + 1, at + Len(pattern)) = pattern

RECURSIVE evaluate(_, _, _)
evaluate(condition, row, columns) ==
    IF condition.kind = "And"
    THEN evaluate(condition.left, row, columns) /\ evaluate(condition.right, row, columns)
    ELSE IF condition.kind = "Or"
    THEN evaluate(condition.left, row, columns) \/ evaluate(condition.right, row, columns)
    ELSE
        LET idx == column_position(columns, condition.column)
        IN  /\ idx # 0
            /\ CASE condition.kind = "Equal" -> value_eq(row[idx], condition.value)
                 [] condition.kind = "NotEqual" -> ~value_eq(row[idx], condition.value)
                 [] condition.kind = "GreaterThan" ->
                        partial_cmp(row[idx], condition.value) = "Greater"
                 [] condition.kind = "LessThan" ->
                        partial_cmp(row[idx], condition.value) = "Less"
                 [] condition.kind = "GreaterEqual" ->
                        partial_cmp(row[idx], condition.value) \in {"Greater", "Equal"}
                 [] condition.kind = "LessEqual" ->
                        partial_cmp(row[idx], condition.value) \in {"Less", "Equal"}
                 [] condition.kind = "Like" ->
                        contains(to_string(row[idx]), condition.pattern)
                 [] condition.kind = "IsNull" -> row[idx].tag = "Null"
                 [] condition.kind = "IsNotNull" -> row[idx].tag # "Null"

\* conditions.iter().all(|condition| condition.evaluate(&row, columns))
match_all(conditions, row, columns) ==
    \A k \in 1..Len(conditions) : evaluate(conditions[k], row, columns)

----------------------------------------------------------------------------
(* get_rows *)

\* limit_reached of a get_rows that collects every row
limit_never_reached(n, limit) == FALSE

\* result_rows.len() >= limit_val, where an absent limit is usize::MAX and is
\* never reached by the length of a result
limit_reached(n, limit) == limit.some /\ n >= limit.v

Rows(rows) == [result |-> "ok", rows |-> rows]
Fail(message) == [result |-> message, rows |-> <<>>]

RECURSIVE read_page(_, _, _, _)
\* the loop of load_rows_paginated over the lines from line i (0-based) on
read_page(lines, i, max_rows, rows) ==
    IF i >= Len(lines) \/ Len(rows) >= max_rows THEN Rows(rows)
    ELSE
        LET d == deserialize_row(lines[i + 1])
        IN  IF ~d.ok THEN Fail("Serialization")
            ELSE read_page(lines, i + 1, max_rows, Append(rows, d.row))

load_rows_paginated(S, table_name, start_row, max_rows) ==
    IF table_path(table_name) \notin DOMAIN S.files THEN Fail("IO")
    ELSE read_page(S.files[table_path(table_name)], start_row, max_rows, <<>>)

RECURSIVE filter_page(_, _, _, _, _, _)
\* the for loop of the full scan over one page
filter_page(rows, k, conditions, columns, limit, result_rows) ==
    IF k > Len(rows) THEN result_rows
    ELSE IF conditions.some /\ ~match_all(conditions.v, rows[k], columns)
    THEN filter_page(rows, k + 1, conditions, columns, limit, result_rows)
    ELSE
        LET pushed == Append(result_rows, rows[k])
        IN  IF limit_reached(Len(pushed), limit) THEN pushed
            ELSE filter_page(rows, k + 1, conditions, columns, limit, pushed)

\* next_page that starts one row behind the end of the page
next_page_skips_a_row(S, start_row) == start_row + S.page_size + 1

\* start_row += self.page_size
next_page(S, start_row) == start_row + S.page_size

RECURSIVE full_scan(_, _, _, _, _, _)
\* the while loop of the full-scan path
full_scan(S, table_name, conditions, limit, start_row, result_rows) ==
    IF limit_reached(Len(result_rows), limit) THEN Rows(result_rows)
    ELSE
        LET page == load_rows_paginated(S, table_name, start_row, S.page_size)
        IN  IF page.result # "ok" THEN page
            ELSE IF page.rows = <<>> THEN Rows(result_rows)
            ELSE full_scan(S, table_name, conditions, limit, next_page(S, start_row),
                           filter_page(page.rows, 1, conditions,
                                       S.metadata[table_name].columns, limit, result_rows))

\* find_usable_index that gives up on a list with any condition that is not Equal
find_usable_index_equal_only(S, table_name, conditions) ==
    IF table_name \notin DOMAIN S.metadata THEN None
    ELSE IF \E k \in 1..Len(conditions) : conditions[k].kind # "Equal" THEN None
    ELSE
        LET indexes == S.metadata[table_name].indexes
            condition_columns == {conditions[k].column : k \in 1..Len(conditions)}
            usable(index) == /\ \A k \in 1..Len(index.columns) :
                                    index.columns[k] \in condition_columns
                             /\ index.columns # <<>>
            at == first_position({i \in 1..Len(indexes) : usable(indexes[i])})
        IN  IF at = 0 THEN None ELSE Some(indexes[at].name)

find_usable_index(S, table_name, conditions) ==
    IF table_name \notin DOMAIN S.metadata THEN None
    ELSE
        LET indexes == S.metadata[table_name].indexes
            condition_columns == {conditions[k].column :
                                     k \in {j \in 1..Len(conditions) : conditions[j].kind = "Equal"}}
            usable(index) == /\ \A k \in 1..Len(index.columns) :
                                    index.columns[k] \in condition_columns
                             /\ index.columns # <<>>
            at == first_position({i \in 1..Len(indexes) : usable(indexes[i])})
        IN  IF at = 0 THEN None ELSE Some(indexes[at].name)

\* data_reader.seek(SeekFrom::Start(position)); read_line; serde_json::from_str:
\* only a read that starts at the first byte of a line yields a row
read_row_at(lines, position) ==
    LET at == {k \in 1..Len(lines) : line_offset(lines, k) = position}
    IN  IF at = {} THEN [ok |-> FALSE, row |-> <<>>]
        ELSE deserialize_row(lines[CHOOSE k \in at : TRUE])

\* key_pattern that takes the values in the order of the conditions
key_pattern_in_condition_order(index_columns, conditions) ==
    LET equal == SelectSeq(conditions, LAMBDA c : c.kind = "Equal")
    IN  json_array(serialize_row([j \in 1..Len(equal) |-> equal[j].value]))

\* the lookup key: per index column the value of the first Equal condition on it
key_pattern(index_columns, conditions) ==
    LET on(col) == {k \in 1..Len(conditions) :
                       conditions[k].kind = "Equal" /\ conditions[k].column = col}
        covered == SelectSeq(index_columns, LAMBDA col : on(col) # {})
        key_values == [j \in 1..Len(covered) |->
                          conditions[CHOOSE k \in on(covered[j]) :
                                         \A m \in on(covered[j]) : k <= m].value]
    IN  json_array(serialize_row(key_values))

RECURSIVE index_scan(_, _, _, _, _, _, _)
\* the loop of get_rows_using_index over the lines of the index file
index_scan(entries, k, pattern, data, conditions, columns_limit, result_rows) ==
    IF k > Len(entries) \/ limit_reached(Len(result_rows), columns_limit.limit)
    THEN Rows(result_rows)
    ELSE IF entries[k].torn \/ entries[k].key # pattern
    THEN index_scan(entries, k + 1, pattern, data, conditions, columns_limit, result_rows)
    ELSE
        LET d == read_row_at(data, entries[k].offset)
        IN  IF ~d.ok THEN Fail("Serialization")
            ELSE index_scan(entries, k + 1, pattern, data, conditions, columns_limit,
                            IF match_all(conditions, d.row, columns_limit.columns)
                            THEN Append(result_rows, d.row) ELSE result_rows)

get_rows_using_index(S, table_name, index_name, conditions, limit) ==
    IF table_name \notin DOMAIN S.metadata THEN Fail("Table not found")
    ELSE
        LET table_metadata == S.metadata[table_name]
            named(idx) == idx.name = index_name
            at == first_position({i \in 1..Len(table_metadata.indexes) : named(table_metadata.indexes[i])})
        IN  IF at = 0 THEN Fail("Index not found")
            ELSE
                LET index == table_metadata.indexes[at]
                IN  IF index.file_path \notin DOMAIN S.files THEN Fail("IO")
                    ELSE IF table_path(table_name) \notin DOMAIN S.files THEN Fail("IO")
                    ELSE index_scan(S.files[index.file_path], 1,
                                    key_pattern(index.columns, conditions),
                                    S.files[table_path(table_name)], conditions,
                                    [columns |-> table_metadata.columns, limit |-> limit],
                                    <<>>)

Ascending == "Ascending"
Descending == "Descending"
OrderBy(column, direction) == [column |-> column, direction |-> direction]

\* order_cmp that never reverses
order_cmp_ascending_only(a, b, column_idx, direction) == cmp(a[column_idx], b[column_idx])

\* the comparator handed to sort_by
order_cmp(a, b, column_idx, direction) ==
    LET c == cmp(a[column_idx], b[column_idx])
    IN  IF direction = Descending
        THEN (IF c = "Less" THEN "Greater" ELSE IF c = "Greater" THEN "Less" ELSE c)
        ELSE c

\* one step of the stable insertion sort: e moves left past every element it is Less than
insert_sorted(sorted, e, column_idx, direction) ==
    LET stop == {j \in 0..Len(sorted) :
                    /\ \A m \in (j + 1)..Len(sorted) :
                           order_cmp(e, sorted[m], column_idx, direction) = "Less"
                    /\ j > 0 => order_cmp(e, sorted[j], column_idx, direction) # "Less"}
        j0 == CHOOSE j \in stop : TRUE
    IN  SubSeq(sorted, 1, j0) \o <<e>> \o SubSeq(sorted, j0 + 1, Len(sorted))

RECURSIVE sort_by(_, _, _, _)
\* result_rows.sort_by(..): stable sort of the rows from position k on into sorted
sort_by(rows, k, sorted, order) ==
    IF k > Len(rows) THEN sorted
    ELSE sort_by(rows, k + 1, insert_sorted(sorted, rows[k], order.idx, order.direction), order)

\* col_indices.get(col_name): the HashMap built over the schema keeps, for a
\* name, the position inserted last
col_indices_get(table_columns, col_name) ==
    LET hits == {i \in 1..Len(table_columns) : table_columns[i].name = col_name}
    IN  IF hits = {} THEN 0 ELSE CHOOSE i \in hits : \A j \in hits : j <= i

\* the projection loop: the first requested name absent from the schema fails
\* the call once a row is being projected
project(result_rows, columns, table_columns) ==
    IF result_rows # <<>> /\ \E k \in 1..Len(columns) : col_indices_get(table_columns, columns[k]) = 0
    THEN Fail("Column not found")
    ELSE Rows([r \in 1..Len(result_rows) |->
                 [k \in 1..Len(columns) |->
                     result_rows[r][col_indices_get(table_columns, columns[k])]]])

get_rows(S, table_name, columns, conditions, order_by, limit) ==
    IF table_name \notin DOMAIN S.metadata THEN Fail("Table not found")
    ELSE
        LET table_metadata == S.metadata[table_name]
            use_index == IF conditions.some
                         THEN find_usable_index(S, table_name, conditions.v) ELSE None
            collected == IF use_index.some
                         THEN get_rows_using_index(S, table_name, use_index.v, conditions.v, limit)
                         ELSE full_scan(S, table_name, conditions, limit, 0, <<>>)
        IN  IF collected.result # "ok" THEN collected
            ELSE
                LET column_idx == IF order_by.some
                                  THEN column_position(table_metadata.columns, order_by.v.column)
                                  ELSE 0
                IN  IF order_by.some /\ column_idx = 0 THEN Fail("Order by column not found")
                    ELSE
                        LET result_rows ==
                                IF order_by.some
                                THEN sort_by(collected.rows, 1, <<>>,
                                             [idx |-> column_idx, direction |-> order_by.v.direction])
                                ELSE collected.rows
                        IN  IF columns # <<>> /\ columns[1] # "*"
                            THEN project(result_rows, columns, table_metadata.columns)
                            ELSE Rows(result_rows)

----------------------------------------------------------------------------
(* Inputs of the storage calls *)

TableNames == {"a", "a_b"}
IndexNames == {"c", "b_c"}

SchemaXY == <<Column("x", "Integer"), Column("y", "Real")>>
SchemaX == <<Column("x", "Integer")>>

\* the (name, columns) arguments of create_table
TableInputs == { <<"a", SchemaXY>>, <<"a_b", SchemaX>> }

\* the (columns, values) arguments of insert_row
InsertInputs ==
    { <<None, <<Integer(1), Real("1.5")>> >>,
      <<None, <<Null, Real("inf")>> >>,
      <<None, <<Integer(1)>> >>,
      <<None, <<Real("1.5"), Integer(1)>> >>,
      <<Some(<<"y", "x">>), <<Real("1.5"), Integer(1)>> >>,
      <<Some(<<"x">>), <<Integer(1)>> >>,
      <<Some(<<"x">>), <<Real("1.5")>> >>,
      <<Some(<<"x">>), <<Integer(1), Integer(1)>> >> }

\* the (table_name, index_name, columns) arguments of create_index
IndexInputs ==
    { <<"a", "b_c", <<"x">> >>,
      <<"a_b", "c", <<"x">> >>,
      <<"a", "c", <<"x", "y">> >>,
      <<"a", "c", <<"z">> >> }

Limits == {None, Some(0), Some(1)}

\* the (columns, conditions, order_by, limit) arguments of get_rows
Queries ==
    { [columns |-> <<"*">>, conditions |-> cn, order_by |-> None, limit |-> lm] :
        cn \in { None, Some(<<Equal("x", Integer(1))>>) }, lm \in {None, Some(1)} }
    \cup
    { [columns |-> <<"y", "x">>, conditions |-> None,
       order_by |-> Some(OrderBy("x", Descending)), limit |-> None],
      [columns |-> <<"*">>, conditions |-> None,
       order_by |-> Some(OrderBy("z", Ascending)), limit |-> None],
      [columns |-> <<"z">>, conditions |-> Some(<<Equal("x", Integer(1)), IsNotNull("y")>>),
       order_by |-> None, limit |-> Some(0)] }

----------------------------------------------------------------------------
(* The state machine *)

RECURSIVE sum_over(_, _)
sum_over(S, f) ==
    IF S = {} THEN 0
    ELSE LET e == CHOOSE e \in S : TRUE IN f[e] + sum_over(S \ {e}, f)

TotalRows(S) ==
    sum_over(DOMAIN S.metadata,
             [t \in DOMAIN S.metadata |->
                 IF table_path(t) \in DOMAIN S.files THEN Len(S.files[table_path(t)]) ELSE 0])

\* the record kept of a storage call that returned r
Returned(op, table, r) == [op |-> op, table |-> table, result |-> r.result]

Init ==
    /\ metadata = <<>>
    /\ metadata_file = NoFile
    /\ files = <<>>
    /\ last = [op |-> "new", table |-> "", result |-> "ok"]

CreateTableOn(input) ==
    LET r == create_table(Cur, input[1], input[2])
    IN  /\ metadata' = r.state.metadata
        /\ metadata_file' = r.state.metadata_file
        /\ files' = r.state.files
        /\ last' = Returned("create_table", input[1], r)

CreateTable ==
    \E input \in TableInputs : CreateTableOn(input)

InsertRowOn(table_name, input) ==
    LET r == insert_row(Cur, table_name, input[1], input[2])
    IN  /\ TotalRows(r.state) <= MaxRows
        /\ metadata' = r.state.metadata
        /\ metadata_file' = r.state.metadata_file
        /\ files' = r.state.files
        /\ last' = Returned("insert_row", table_name, r)

InsertRow ==
    \E table_name \in TableNames, input \in InsertInputs : InsertRowOn(table_name, input)

CreateIndexOn(input) ==
    LET r == create_index(Cur, input[1], input[2], input[3])
    IN  /\ metadata' = r.state.metadata
        /\ metadata_file' = r.state.metadata_file
        /\ files' = r.state.files
        /\ last' = Returned("create_index", input[1], r)

CreateIndex ==
    \E input \in IndexInputs : CreateIndexOn(input)

DropIndexOn(table_name, index_name) ==
    LET r == drop_index(Cur, table_name, index_name)
    IN  /\ metadata' = r.state.metadata
        /\ metadata_file' = r.state.metadata_file
        /\ files' = r.state.files
        /\ last' = Returned("drop_index", table_name, r)

DropIndex ==
    \E table_name \in TableNames, index_name \in IndexNames :
        DropIndexOn(table_name, index_name)

DropTableOn(name) ==
    LET r == drop_table(Cur, name)
    IN  /\ metadata' = r.state.metadata
        /\ metadata_file' = r.state.metadata_file
        /\ files' = r.state.files
        /\ last' = Returned("drop_table", name, r)

DropTable ==
    \E name \in TableNames : DropTableOn(name)

GetRows ==
    \E table_name \in TableNames, q \in Queries :
        /\ last' = [op |-> "get_rows", table |-> table_name,
                    result |-> get_rows(Cur, table_name, q.columns, q.conditions,
                                        q.order_by, q.limit).result]
        /\ UNCHANGED <<metadata, metadata_file, files>>

Next ==
    \/ CreateTable
    \/ InsertRow
    \/ CreateIndex
    \/ DropIndex
    \/ DropTable
    \/ GetRows

Spec == Init /\ [][Next]_vars

\* the inputs of insert_row whose values are all written as they are read back
FiniteInsertInputs ==
    {input \in InsertInputs :
        \A k \in 1..Len(input[2]) : from_json_value(to_json_value(input[2][k])).ok}

InsertRowFinite ==
    \E table_name \in TableNames, input \in FiniteInsertInputs :
        InsertRowOn(table_name, input)

NextFinite ==
    \/ CreateTable
    \/ InsertRowFinite
    \/ CreateIndex
    \/ DropIndex
    \/ DropTable
    \/ GetRows

\* the storage fed only rows whose stored text can be read back
SpecFinite == Init /\ [][NextFinite]_vars

\* the Storage whose next write of metadata.json ends as io says
WithIo(io) == [Cur EXCEPT !.io = io]

CreateTableWriting(input, io) ==
    LET r == create_table(WithIo(io), input[1], input[2])
    IN  /\ metadata' = r.state.metadata
        /\ metadata_file' = r.state.metadata_file
        /\ files' = r.state.files
        /\ last' = Returned("create_table", input[1], r)

InsertRowWriting(table_name, input, io) ==
    LET r == insert_row(WithIo(io), table_name, input[1], input[2])
    IN  /\ TotalRows(r.state) <= MaxRows
        /\ \A t \in DOMAIN r.state.metadata : r.state.metadata[t].row_count <= MaxRows
        /\ \A p \in DOMAIN r.state.files : Len(r.state.files[p]) <= MaxRows
        /\ metadata' = r.state.metadata
        /\ metadata_file' = r.state.metadata_file
        /\ files' = r.state.files
        /\ last' = Returned("insert_row", table_name, r)

CreateIndexWriting(input, io) ==
    LET r == create_index(WithIo(io), input[1], input[2], input[3])
    IN  /\ metadata' = r.state.metadata
        /\ metadata_file' = r.state.metadata_file
        /\ files' = r.state.files
        /\ last' = Returned("create_index", input[1], r)

DropIndexWriting(table_name, index_name, io) ==
    LET r == drop_index(WithIo(io), table_name, index_name)
    IN  /\ metadata' = r.state.metadata
        /\ metadata_file' = r.state.metadata_file
        /\ files' = r.state.files
        /\ last' = Returned("drop_index", table_name, r)

DropTableWriting(name, io) ==
    LET r == drop_table(WithIo(io), name)
    IN  /\ metadata' = r.state.metadata
        /\ metadata_file' = r.state.metadata_file
        /\ files' = r.state.files
        /\ last' = Returned("drop_table", name, r)

\* the process ends and Storage::new is called on the same directory
Restart ==
    LET r == new(Cur)
    IN  /\ metadata' = r.state.metadata
        /\ UNCHANGED <<metadata_file, files>>
        /\ last' = Returned("new", "", r)

\* the inputs of the calls made while the writes of metadata.json may fail
IoTableInputs == { <<"a", SchemaXY>> }
IoInsertInputs == { <<None, <<Integer(1), Real("1.5")>> >> }
IoIndexInputs == { <<"a", "c", <<"x">> >> }

NextIo ==
    \/ \E input \in IoTableInputs, io \in IoOutcomes : CreateTableWriting(input, io)
    \/ \E input \in IoInsertInputs, io \in IoOutcomes : InsertRowWriting("a", input, io)
    \/ \E input \in IoIndexInputs, io \in IoOutcomes : CreateIndexWriting(input, io)
    \/ \E io \in IoOutcomes : DropIndexWriting("a", "c", io)
    \/ \E io \in IoOutcomes : DropTableWriting("a", io)
    \/ Restart

\* the storage on a file system that can fail the writes of metadata.json, and
\* restarted at any moment
SpecIo == Init /\ [][NextIo]_vars

\* the rows of the table whose rows are sorted: the values 3, 1 and Null in
\* column x, and two rows that agree on x and differ on y
SortInsertInputs ==
    { <<None, <<Integer(3), Real("1.5")>> >>,
      <<None, <<Integer(1), Real("1.5")>> >>,
      <<None, <<Null, Real("1.5")>> >>,
      <<None, <<Integer(1), Null>> >> }

SortDirections == {Ascending, Descending}

\* the condition lists of the sorted queries: none, one served by the index on
\* x, one served by the full scan
SortConditions == { None, Some(<<Equal("x", Integer(1))>>), Some(<<IsNotNull("x")>>) }

InsertSortRow ==
    \E input \in SortInsertInputs :
        LET r == insert_row(Cur, "a", input[1], input[2])
        IN  /\ TotalRows(r.state) <= MaxSortRows
            /\ metadata' = r.state.metadata
            /\ metadata_file' = r.state.metadata_file
            /\ files' = r.state.files
            /\ last' = Returned("insert_row", "a", r)

GetSortedRows ==
    \E direction \in SortDirections, limit \in {None, Some(2)} :
        /\ last' = [op |-> "get_rows", table |-> "a",
                    result |-> get_rows(Cur, "a", <<"*">>, None,
                                        Some(OrderBy("x", direction)), limit).result]
        /\ UNCHANGED <<metadata, metadata_file, files>>

NextSort ==
    \/ CreateTableOn(<<"a", SchemaXY>>)
    \/ InsertSortRow
    \/ CreateIndexOn(<<"a", "b_c", <<"x">> >>)
    \/ GetSortedRows

\* one table, with or without an index on x, filled and queried with ORDER BY
SpecSort == Init /\ [][NextSort]_vars

\* the rows of the table whose indexes are looked up
LookupInsertInputs ==
    { <<None, <<Integer(1), Real("1.5")>> >>,
      <<None, <<Integer(2), Real("1.5")>> >>,
      <<None, <<Integer(1), Null>> >> }

\* the indexes of that table: on x, on y and x, and on no column
LookupIndexInputs ==
    { <<"a", "c", <<"x">> >>,
      <<"a", "d", <<"y", "x">> >>,
      <<"a", "e", <<>> >> }

\* the condition lists of the lookups: Equal conditions alone, Equal conditions
\* next to a condition of another kind or to a combined one, and lists without
\* a top-level Equal
LookupConditions ==
    { <<Equal("x", Integer(1))>>,
      <<Equal("y", Real("1.5")), Equal("x", Integer(1)), Equal("x", Integer(2))>>,
      <<Equal("x", Integer(1)), IsNotNull("y")>>,
      <<GreaterThan("y", Real("0.0")), Equal("x", Integer(1))>>,
      <<Equal("x", Integer(1)), Or(Equal("x", Integer(2)), IsNull("y"))>>,
      <<And(Equal("x", Integer(1)), Equal("y", Real("1.5")))>>,
      <<IsNotNull("x")>> }

InsertLookupRow ==
    \E input \in LookupInsertInputs :
        LET r == insert_row(Cur, "a", input[1], input[2])
        IN  /\ TotalRows(r.state) <= MaxRows
            /\ metadata' = r.state.metadata
            /\ metadata_file' = r.state.metadata_file
            /\ files' = r.state.files
            /\ last' = Returned("insert_row", "a", r)

CreateLookupIndex == \E input \in LookupIndexInputs : CreateIndexOn(input)

GetRowsLookup ==
    \E conditions \in LookupConditions :
        /\ last' = [op |-> "get_rows", table |-> "a",
                    conditions |-> conditions,
                    result |-> get_rows(Cur, "a", <<"*">>, Some(conditions),
                                        None, None).result]
        /\ UNCHANGED <<metadata, metadata_file, files>>

DropLookupIndex == \E input \in LookupIndexInputs : DropIndexOn("a", input[2])

NextLookup ==
    \/ CreateTableOn(<<"a", SchemaXY>>)
    \/ InsertLookupRow
    \/ CreateLookupIndex
    \/ DropLookupIndex
    \/ DropTableOn("a")
    \/ GetRowsLookup

\* one table with up to three indexes, queried with lists of conditions
SpecLookup == Init /\ [][NextLookup]_vars

\* the (columns, values) arguments of the inserts with an explicit column
\* list: the columns of the schema in another order, some of them, a name the
\* schema does not hold, a name given twice, a value of another type, and more
\* values than names
NamedInsertInputs ==
    { <<Some(<<"y", "x">>), <<Real("1.5"), Integer(1)>> >>,
      <<Some(<<"x">>), <<Integer(1)>> >>,
      <<Some(<<"y">>), <<Real("1.5")>> >>,
      <<Some(<<"x", "z">>), <<Integer(1), Integer(2)>> >>,
      <<Some(<<"z">>), <<Integer(1)>> >>,
      <<Some(<<"x", "x">>), <<Integer(1), Integer(2)>> >>,
      <<Some(<<"x", "y">>), <<Real("1.5"), Integer(1)>> >>,
      <<Some(<<"x">>), <<Integer(1), Integer(1)>> >> }

\* insert_row on table a with an explicit column list; the call is kept with
\* its arguments
InsertNamedRow ==
    \E input \in NamedInsertInputs :
        LET r == insert_row(Cur, "a", input[1], input[2])
        IN  /\ TotalRows(r.state) <= MaxRows
            /\ metadata' = r.state.metadata
            /\ metadata_file' = r.state.metadata_file
            /\ files' = r.state.files
            /\ last' = [op |-> "insert_row", table |-> "a", columns |-> input[1].v,
                        values |-> input[2], result |-> r.result]

NextNamed ==
    \/ CreateTableOn(<<"a", SchemaXY>>)
    \/ InsertNamedRow

\* one table filled by inserts that name their columns
SpecNamed == Init /\ [][NextNamed]_vars

----------------------------------------------------------------------------
(* The parser of conditions (parser.rs) *)

\* number of simple conditions of a WHERE chain
MaxConds == 3

Text(s) == [tag |-> "Text", s |-> s]
Boolean(b) == [tag |-> "Boolean", b |-> b]
Like(column, pattern) == [kind |-> "Like", column |-> column, pattern |-> pattern]

\* struct Token, without the position that the parser never reads
Token(token_type, value) == [token_type |-> token_type, value |-> value]

\* Parser { tokens, current: 0 }
Parser(tokens) == [tokens |-> tokens, current |-> 0]

\* str::to_uppercase on the lexemes of the model
to_uppercase(text) ==
    CASE text = "and" -> "AND"
      [] text = "or" -> "OR"
      [] text = "is" -> "IS"
      [] text = "not" -> "NOT"
      [] text = "null" -> "NULL"
      [] text = "like" -> "LIKE"
      [] OTHER -> text

\* value.contains('.') on the numeric lexemes of the model
contains_dot(text) == text \in {"1.5", "1.50"}

\* str::parse::<f64> on the numeric lexemes of the model
parse_f64(text) == IF text = "1.50" THEN "1.5" ELSE text

\* the digits of 2^63, one more than i64::MAX = 9223372036854775807
TooLargeForI64 == "9223372036854775808"

\* str::parse::<i64> on the numeric lexemes of the model: None stands for the
\* Err(PosOverflow) of a literal beyond i64::MAX, which the callers unwrap
parse_i64(text) ==
    IF text = TooLargeForI64 THEN None
    ELSE IF text = "01" THEN Some(1)
    ELSE Some(CHOOSE n \in 0..99 : ToString(n) = text)

\* str::parse::<usize> on the numeric lexemes of the model: None stands for Err
parse_usize(text) ==
    IF contains_dot(text) THEN None ELSE parse_i64(text)

ParseErr(message) == [result |-> message]

\* tokens.get(self.current)
get_token(P) ==
    IF P.current < Len(P.tokens) THEN Some(P.tokens[P.current + 1]) ELSE None

advance(P) ==
    IF ~get_token(P).some THEN ParseErr("Unexpected end of input")
    ELSE [result |-> "ok", parser |-> [P EXCEPT !.current = @ + 1], token |-> get_token(P).v]

consume(P, expected) ==
    IF ~get_token(P).some THEN ParseErr("Unexpected end of input")
    ELSE IF to_uppercase(get_token(P).v.value) = to_uppercase(expected)
    THEN [result |-> "ok", parser |-> [P EXCEPT !.current = @ + 1], token |-> get_token(P).v]
    ELSE ParseErr("Expected")

consume_any(P, expected_types) ==
    IF ~get_token(P).some THEN ParseErr("Unexpected end of input")
    ELSE IF get_token(P).v.token_type \in expected_types
    THEN [result |-> "ok", parser |-> [P EXCEPT !.current = @ + 1], token |-> get_token(P).v]
    ELSE ParseErr("Expected token of type")

ParsedCondition(P, condition) == [result |-> "ok", parser |-> P, condition |-> condition]

\* the value of a condition's right-hand token; None where parse::<i64>().unwrap() panics
token_value(value_token) ==
    CASE value_token.token_type = "NumericLiteral" ->
            IF contains_dot(value_token.value)
            THEN Some(Real(parse_f64(value_token.value)))
            ELSE IF parse_i64(value_token.value).some
            THEN Some(Integer(parse_i64(value_token.value).v))
            ELSE None
      [] value_token.token_type = "StringLiteral" -> Some(Text(value_token.value))
      [] value_token.token_type = "Keyword" /\ to_uppercase(value_token.value) = "NULL" ->
            Some(Null)
      [] value_token.token_type = "Keyword" /\ to_uppercase(value_token.value) = "TRUE" ->
            Some(Boolean(TRUE))
      [] value_token.token_type = "Keyword" /\ to_uppercase(value_token.value) = "FALSE" ->
            Some(Boolean(FALSE))
      [] OTHER -> Some(Text(value_token.value))

\* the match on the operator's lexeme
comparison(P, operator, column, value) ==
    CASE operator = "=" -> ParsedCondition(P, Equal(column, value))
      [] operator \in {"<>", "!="} -> ParsedCondition(P, NotEqual(column, value))
      [] operator = ">" -> ParsedCondition(P, GreaterThan(column, value))
      [] operator = "<" -> ParsedCondition(P, LessThan(column, value))
      [] operator = ">=" -> ParsedCondition(P, GreaterEqual(column, value))
      [] operator = "<=" -> ParsedCondition(P, LessEqual(column, value))
      [] operator = "LIKE" ->
            IF value.tag = "Text" THEN ParsedCondition(P, Like(column, value.s))
            ELSE ParseErr("LIKE pattern must be a string")
      [] OTHER -> ParseErr("Unknown operator")

\* the IS [NOT] NULL forms, P standing after the column name, on the IS token
null_test(P, column) ==
    LET after_is == advance(P).parser
        next == get_token(after_is)
    IN  IF ~next.some THEN ParseErr("Unexpected end of input")
        ELSE IF to_uppercase(next.v.value) = "NOT"
        THEN LET null_token == consume(advance(after_is).parser, "NULL")
             IN  IF null_token.result # "ok" THEN null_token
                 ELSE ParsedCondition(null_token.parser, IsNotNull(column))
        ELSE IF to_uppercase(next.v.value) = "NULL"
        THEN ParsedCondition(advance(after_is).parser, IsNull(column))
        ELSE ParseErr("Expected NULL after IS")

parse_condition(P) ==
    LET name == consume_any(P, {"Identifier"})
    IN  IF name.result # "ok" THEN name
        ELSE IF ~get_token(name.parser).some THEN ParseErr("Unexpected end of input")
        ELSE IF to_uppercase(get_token(name.parser).v.value) = "IS"
        THEN null_test(name.parser, name.token.value)
        ELSE
            LET operator == advance(name.parser)
                value_token == advance(operator.parser)
            IN  IF value_token.result # "ok" THEN value_token
                ELSE IF ~token_value(value_token.token).some THEN ParseErr("panic")
                ELSE comparison(value_token.parser, operator.token.value,
                                name.token.value, token_value(value_token.token).v)

\* combine that gives AND precedence over a preceding OR
combine_with_precedence(operator, left_condition, right_condition) ==
    IF operator = "AND"
    THEN IF left_condition.kind = "Or"
         THEN Or(left_condition.left, And(left_condition.right, right_condition))
         ELSE And(left_condition, right_condition)
    ELSE Or(left_condition, right_condition)

\* the condition built from the popped one and the one just parsed
combine(operator, left_condition, right_condition) ==
    IF operator = "AND"
    THEN And(left_condition, right_condition)
    ELSE Or(left_condition, right_condition)

is_some(c) == c.some

\* conditions.into_iter().filter_map(|c| c).collect()
filter_map(conditions) ==
    LET kept == SelectSeq(conditions, is_some)
    IN  [i \in 1..Len(kept) |-> kept[i].v]

RECURSIVE conditions_loop(_, _)
\* the while loop of parse_conditions
conditions_loop(P, conditions) ==
    IF /\ P.current < Len(P.tokens)
       /\ to_uppercase(get_token(P).v.value) \in {"AND", "OR"}
    THEN
        LET operator == to_uppercase(advance(P).token.value)
            right_condition == parse_condition(advance(P).parser)
        IN  IF right_condition.result # "ok" THEN right_condition
            ELSE
                LET left_condition == conditions[Len(conditions)]
                    popped == SubSeq(conditions, 1, Len(conditions) - 1)
                    combined == combine(operator, left_condition.v, right_condition.condition)
                IN  conditions_loop(right_condition.parser, Append(popped, Some(combined)))
    ELSE [result |-> "ok", parser |-> P, conditions |-> Some(filter_map(conditions))]

parse_conditions(P) ==
    LET condition == parse_condition(P)
    IN  IF condition.result # "ok" THEN condition
        ELSE conditions_loop(condition.parser, <<Some(condition.condition)>>)

ParsedValue(P, value) == [result |-> "ok", parser |-> P, value |-> value]

\* a parse::<i64>().unwrap() on Err: the thread panics
Panic == [result |-> "panic"]

parse_value(P) ==
    IF ~get_token(P).some THEN ParseErr("Unexpected end of input")
    ELSE
        LET token == get_token(P).v
            next == [P EXCEPT !.current = @ + 1]
        IN  CASE token.token_type = "NumericLiteral" ->
                    IF contains_dot(token.value)
                    THEN ParsedValue(next, Real(parse_f64(token.value)))
                    ELSE IF parse_i64(token.value).some
                    THEN ParsedValue(next, Integer(parse_i64(token.value).v))
                    ELSE Panic
              [] token.token_type = "StringLiteral" -> ParsedValue(next, Text(token.value))
              [] token.token_type = "Keyword" ->
                    CASE to_uppercase(token.value) = "NULL" -> ParsedValue(next, Null)
                      [] to_uppercase(token.value) = "TRUE" -> ParsedValue(next, Boolean(TRUE))
                      [] to_uppercase(token.value) = "FALSE" -> ParsedValue(next, Boolean(FALSE))
                      [] OTHER -> ParseErr("Unexpected keyword")
              [] OTHER -> ParseErr("Unexpected token type")

Parsed(P, statement) == [result |-> "ok", parser |-> P, statement |-> statement]

ParsedList(P, list) == [result |-> "ok", parser |-> P, list |-> list]

RECURSIVE name_list(_, _)
\* the loop over a parenthesized list of names that ends with ")"
name_list(P, col_list) ==
    LET col_name == consume_any(P, {"Identifier"})
    IN  IF col_name.result # "ok" THEN col_name
        ELSE IF ~get_token(col_name.parser).some THEN ParseErr("Unexpected end of input")
        ELSE
            LET token == get_token(col_name.parser).v.value
                pushed == Append(col_list, col_name.token.value)
            IN  IF token = ")" THEN ParsedList(advance(col_name.parser).parser, pushed)
                ELSE IF token = "," THEN name_list(advance(col_name.parser).parser, pushed)
                ELSE ParseErr("Expected ',' or ')'")

RECURSIVE value_tuple(_, _)
\* the inner loop of parse_insert: the values of one tuple, pushed onto all_values
value_tuple(P, all_values) ==
    LET value == parse_value(P)
    IN  IF value.result # "ok" THEN value
        ELSE IF ~get_token(value.parser).some THEN ParseErr("Unexpected end of input")
        ELSE
            LET token == get_token(value.parser).v.value
                pushed == Append(all_values, value.value)
            IN  IF token = ")" THEN ParsedList(advance(value.parser).parser, pushed)
                ELSE IF token = "," THEN value_tuple(advance(value.parser).parser, pushed)
                ELSE ParseErr("Expected ',' or ')'")

RECURSIVE value_tuples(_, _)
\* the outer loop of parse_insert over the tuples that follow VALUES
value_tuples(P, all_values) ==
    LET open == consume(P, "(")
    IN  IF open.result # "ok" THEN open
        ELSE
            LET tuple == value_tuple(open.parser, all_values)
            IN  IF tuple.result # "ok" THEN tuple
                ELSE IF tuple.parser.current >= Len(tuple.parser.tokens)
                        \/ get_token(tuple.parser).v.value # ","
                THEN tuple
                ELSE
                    LET after_comma == advance(tuple.parser).parser
                    IN  IF ~get_token(after_comma).some
                        THEN ParseErr("Unexpected end of input")
                        ELSE IF get_token(after_comma).v.value # "("
                        THEN ParseErr("Expected '(' after ',' in VALUES clause")
                        ELSE value_tuples(after_comma, tuple.list)

parse_insert(P) ==
    LET insert == consume(P, "INSERT")
        into == consume(insert.parser, "INTO")
        table == consume_any(into.parser, {"Identifier"})
    IN  IF insert.result # "ok" THEN insert
        ELSE IF into.result # "ok" THEN into
        ELSE IF table.result # "ok" THEN table
        ELSE IF ~get_token(table.parser).some THEN ParseErr("Unexpected end of input")
        ELSE
            LET listed == get_token(table.parser).v.value = "("
                col_list == IF listed THEN name_list(advance(table.parser).parser, <<>>)
                            ELSE ParsedList(table.parser, <<>>)
            IN  IF col_list.result # "ok" THEN col_list
                ELSE
                    LET values_word == consume(col_list.parser, "VALUES")
                    IN  IF values_word.result # "ok" THEN values_word
                        ELSE
                            LET all_values == value_tuples(values_word.parser, <<>>)
                            IN  IF all_values.result # "ok" THEN all_values
                                ELSE Parsed(all_values.parser,
                                            [stmt |-> "Insert",
                                             table |-> table.token.value,
                                             columns |-> IF listed THEN Some(col_list.list)
                                                         ELSE None,
                                             values |-> all_values.list])

\* struct Assignment
Assignment(column, value) == [column |-> column, value |-> value]

RECURSIVE assignment_list(_, _)
\* the loop of parse_update over the assignments that follow SET
assignment_list(P, assignments) ==
    LET column == consume_any(P, {"Identifier"})
        equals == consume(column.parser, "=")
        value == parse_value(equals.parser)
    IN  IF column.result # "ok" THEN column
        ELSE IF equals.result # "ok" THEN equals
        ELSE IF value.result # "ok" THEN value
        ELSE IF ~get_token(value.parser).some THEN ParseErr("Unexpected end of input")
        ELSE
            LET pushed == Append(assignments, Assignment(column.token.value, value.value))
            IN  IF get_token(value.parser).v.value # ","
                THEN ParsedList(value.parser, pushed)
                ELSE assignment_list(advance(value.parser).parser, pushed)

\* the optional WHERE clause: the parser behind it and the conditions, None
\* without a WHERE
where_clause(P) ==
    IF P.current < Len(P.tokens) /\ to_uppercase(get_token(P).v.value) = "WHERE"
    THEN parse_conditions(advance(P).parser)
    ELSE [result |-> "ok", parser |-> P, conditions |-> None]

parse_update(P) ==
    LET update == consume(P, "UPDATE")
        table == consume_any(update.parser, {"Identifier"})
        set == consume(table.parser, "SET")
    IN  IF update.result # "ok" THEN update
        ELSE IF table.result # "ok" THEN table
        ELSE IF set.result # "ok" THEN set
        ELSE
            LET assignments == assignment_list(set.parser, <<>>)
            IN  IF assignments.result # "ok" THEN assignments
                ELSE
                    LET conditions == where_clause(assignments.parser)
                    IN  IF conditions.result # "ok" THEN conditions
                        ELSE Parsed(conditions.parser,
                                    [stmt |-> "Update", table |-> table.token.value,
                                     assignments |-> assignments.list,
                                     conditions |-> conditions.conditions])

parse_delete(P) ==
    LET delete == consume(P, "DELETE")
        from == consume(delete.parser, "FROM")
        table == consume_any(from.parser, {"Identifier"})
    IN  IF delete.result # "ok" THEN delete
        ELSE IF from.result # "ok" THEN from
        ELSE IF table.result # "ok" THEN table
        ELSE
            LET conditions == where_clause(table.parser)
            IN  IF conditions.result # "ok" THEN conditions
                ELSE Parsed(conditions.parser,
                            [stmt |-> "Delete", table |-> table.token.value,
                             conditions |-> conditions.conditions])

parse_drop(P) ==
    LET drop == consume(P, "DROP")
        table_word == consume(drop.parser, "TABLE")
        name == consume_any(table_word.parser, {"Identifier"})
    IN  IF drop.result # "ok" THEN drop
        ELSE IF table_word.result # "ok" THEN table_word
        ELSE IF name.result # "ok" THEN name
        ELSE Parsed(name.parser, [stmt |-> "DropTable", name |-> name.token.value])

RECURSIVE select_list(_, _)
\* the loop of parse_select over the requested columns
select_list(P, columns) ==
    IF ~get_token(P).some THEN ParseErr("Unexpected end of input")
    ELSE
        LET token == get_token(P).v
        IN  IF token.value = "*"
            THEN ParsedList(advance(P).parser, Append(columns, "*"))
            ELSE IF token.token_type # "Identifier"
            THEN ParseErr("Expected column name or '*'")
            ELSE
                LET after_name == advance(P).parser
                    pushed == Append(columns, token.value)
                IN  IF ~get_token(after_name).some THEN ParseErr("Unexpected end of input")
                    ELSE IF to_uppercase(get_token(after_name).v.value) = "FROM"
                    THEN ParsedList(after_name, pushed)
                    ELSE IF get_token(after_name).v.value = ","
                    THEN select_list(advance(after_name).parser, pushed)
                    ELSE ParseErr("Expected ',' or FROM")

\* the optional ORDER BY clause of parse_select
order_by_clause(P) ==
    IF P.current < Len(P.tokens) /\ to_uppercase(get_token(P).v.value) = "ORDER"
    THEN
        LET by == consume(advance(P).parser, "BY")
            column == consume_any(by.parser, {"Identifier"})
        IN  IF by.result # "ok" THEN by
            ELSE IF column.result # "ok" THEN column
            ELSE
                LET after_column == column.parser
                    word == IF after_column.current < Len(after_column.tokens)
                            THEN to_uppercase(get_token(after_column).v.value) ELSE ""
                IN  CASE word = "ASC" ->
                            [result |-> "ok", parser |-> advance(after_column).parser,
                             order_by |-> Some(OrderBy(column.token.value, Ascending))]
                      [] word = "DESC" ->
                            [result |-> "ok", parser |-> advance(after_column).parser,
                             order_by |-> Some(OrderBy(column.token.value, Descending))]
                      [] OTHER ->
                            [result |-> "ok", parser |-> after_column,
                             order_by |-> Some(OrderBy(column.token.value, Ascending))]
    ELSE [result |-> "ok", parser |-> P, order_by |-> None]

\* the optional LIMIT clause of parse_select
limit_clause(P) ==
    IF P.current < Len(P.tokens) /\ to_uppercase(get_token(P).v.value) = "LIMIT"
    THEN
        LET limit_token == consume_any(advance(P).parser, {"NumericLiteral"})
        IN  IF limit_token.result # "ok" THEN limit_token
            ELSE IF ~parse_usize(limit_token.token.value).some
            THEN ParseErr("Invalid LIMIT value")
            ELSE [result |-> "ok", parser |-> limit_token.parser,
                  limit |-> Some(parse_usize(limit_token.token.value).v)]
    ELSE [result |-> "ok", parser |-> P, limit |-> None]

parse_select(P) ==
    LET select == consume(P, "SELECT")
    IN  IF select.result # "ok" THEN select
        ELSE
            LET columns == select_list(select.parser, <<>>)
            IN  IF columns.result # "ok" THEN columns
                ELSE
                    LET from == consume(columns.parser, "FROM")
                        table == consume_any(from.parser, {"Identifier"})
                    IN  IF from.result # "ok" THEN from
                        ELSE IF table.result # "ok" THEN table
                        ELSE
                            LET conditions == where_clause(table.parser)
                            IN  IF conditions.result # "ok" THEN conditions
                                ELSE
                                    LET order_by == order_by_clause(conditions.parser)
                                    IN  IF order_by.result # "ok" THEN order_by
                                        ELSE
                                            LET limit == limit_clause(order_by.parser)
                                            IN  IF limit.result # "ok" THEN limit
                                                ELSE Parsed(limit.parser,
                                                        [stmt |-> "Select",
                                                         table |-> table.token.value,
                                                         columns |-> columns.list,
                                                         conditions |-> conditions.conditions,
                                                         order_by |-> order_by.order_by,
                                                         limit |-> limit.limit])

RECURSIVE index_columns_list(_, _)
\* the while loop of parse_create over the columns of CREATE INDEX
index_columns_list(P, columns) ==
    IF ~get_token(P).some THEN ParseErr("Unexpected end of input")
    ELSE IF get_token(P).v.value = ")" THEN ParsedList(P, columns)
    ELSE
        LET column == consume_any(P, {"Identifier"})
        IN  IF column.result # "ok" THEN column
            ELSE IF ~get_token(column.parser).some THEN ParseErr("Unexpected end of input")
            ELSE IF get_token(column.parser).v.value # ")"
            THEN LET comma == consume(column.parser, ",")
                 IN  IF comma.result # "ok" THEN comma
                     ELSE index_columns_list(comma.parser,
                                             Append(columns, column.token.value))
            ELSE index_columns_list(column.parser, Append(columns, column.token.value))

\* the match on the upper-cased name of a data type; None for an unknown name
data_type_named(word) ==
    CASE word \in {"INTEGER", "INT"} -> Some("Integer")
      [] word \in {"TEXT", "VARCHAR", "CHAR", "STRING"} -> Some("Text")
      [] word \in {"BOOLEAN", "BOOL"} -> Some("Boolean")
      [] word \in {"REAL", "FLOAT", "DOUBLE"} -> Some("Real")
      [] OTHER -> None

RECURSIVE column_definitions(_, _)
\* the loop of parse_create over the column definitions of CREATE TABLE
column_definitions(P, columns) ==
    LET col_name == consume_any(P, {"Identifier"})
        data_type_token == consume_any(col_name.parser, {"Keyword", "Identifier"})
    IN  IF col_name.result # "ok" THEN col_name
        ELSE IF data_type_token.result # "ok" THEN data_type_token
        ELSE
            LET data_type == data_type_named(to_uppercase(data_type_token.token.value))
            IN  IF ~data_type.some THEN ParseErr("Unknown data type")
                ELSE IF ~get_token(data_type_token.parser).some
                THEN ParseErr("Unexpected end of input")
                ELSE
                    LET token == get_token(data_type_token.parser).v.value
                        pushed == Append(columns, Column(col_name.token.value, data_type.v))
                    IN  IF token = ")"
                        THEN ParsedList(advance(data_type_token.parser).parser, pushed)
                        ELSE IF token = ","
                        THEN column_definitions(advance(data_type_token.parser).parser, pushed)
                        ELSE ParseErr("Expected ',' or ')'")

parse_create(P) ==
    LET create == consume(P, "CREATE")
    IN  IF create.result # "ok" THEN create
        ELSE IF ~get_token(create.parser).some THEN ParseErr("Unexpected end of input")
        ELSE IF to_uppercase(get_token(create.parser).v.value) = "INDEX"
        THEN
            LET name == consume_any(advance(create.parser).parser, {"Identifier"})
                on == consume(name.parser, "ON")
                table == consume_any(on.parser, {"Identifier"})
                open == consume(table.parser, "(")
            IN  IF name.result # "ok" THEN name
                ELSE IF on.result # "ok" THEN on
                ELSE IF table.result # "ok" THEN table
                ELSE IF open.result # "ok" THEN open
                ELSE
                    LET columns == index_columns_list(open.parser, <<>>)
                    IN  IF columns.result # "ok" THEN columns
                        ELSE Parsed(columns.parser,
                                    [stmt |-> "CreateIndex", name |-> name.token.value,
                                     table |-> table.token.value, columns |-> columns.list])
        ELSE
            LET table_word == consume(create.parser, "TABLE")
                name == consume_any(table_word.parser, {"Identifier"})
                open == consume(name.parser, "(")
            IN  IF table_word.result # "ok" THEN table_word
                ELSE IF name.result # "ok" THEN name
                ELSE IF open.result # "ok" THEN open
                ELSE
                    LET columns == column_definitions(open.parser, <<>>)
                    IN  IF columns.result # "ok" THEN columns
                        ELSE Parsed(columns.parser,
                                    [stmt |-> "CreateTable", name |-> name.token.value,
                                     columns |-> columns.list])

\* Parser::parse: the statement parser chosen by the first token
parse(P) ==
    IF ~get_token(P).some THEN ParseErr("Unexpected end of input")
    ELSE
        LET word == to_uppercase(get_token(P).v.value)
        IN  CASE word = "CREATE" -> parse_create(P)
              [] word = "INSERT" -> parse_insert(P)
              [] word = "SELECT" -> parse_select(P)
              [] word = "UPDATE" -> parse_update(P)
              [] word = "DELETE" -> parse_delete(P)
              [] word = "DROP" -> parse_drop(P)
              [] OTHER -> ParseErr("Unknown statement")

\* the token lists of the simple conditions of a chain:
\* x = 1, y IS NULL, x is NOT NULL
SimpleTokens ==
    << <<Token("Identifier", "x"), Token("Operator", "="), Token("NumericLiteral", "1")>>,
       <<Token("Identifier", "y"), Token("Keyword", "IS"), Token("Keyword", "NULL")>>,
       <<Token("Identifier", "x"), Token("Keyword", "is"), Token("Keyword", "NOT"),
         Token("Keyword", "NULL")>> >>

\* the lexemes of the combinators of a chain
Combinators == {"AND", "OR", "or"}

\* what follows the chain: the EOF token that ends every token vector, alone or
\* after the ORDER BY of a SELECT
Rests ==
    { <<Token("EOF", "")>>,
      <<Token("Keyword", "ORDER"), Token("Keyword", "BY"), Token("Identifier", "x"),
        Token("EOF", "")>> }

\* the chains c1 op1 c2 ... cn of at most MaxConds simple conditions
Chains ==
    UNION { { [conds |-> cs, ops |-> os, rest |-> rest] :
                cs \in [1..n -> 1..Len(SimpleTokens)],
                os \in [1..(n - 1) -> Combinators],
                rest \in Rests } : n \in 1..MaxConds }

RECURSIVE chain_tokens(_, _)
\* the token vector of a chain from its i-th simple condition on
chain_tokens(chain, i) ==
    IF i > Len(chain.conds) THEN chain.rest
    ELSE SimpleTokens[chain.conds[i]]
         \o (IF i < Len(chain.conds) THEN <<Token("Keyword", chain.ops[i])>> ELSE <<>>)
         \o chain_tokens(chain, i + 1)

\* a parser standing at the first token of the conditions of a statement
InitParse ==
    /\ metadata = <<>>
    /\ metadata_file = NoFile
    /\ files = <<>>
    /\ \E chain \in Chains :
           last = [op |-> "new", table |-> "", chain |-> chain,
                   result |-> Parser(chain_tokens(chain, 1))]

ParseConditions ==
    /\ last.op = "new"
    /\ last' = [op |-> "parse_conditions", table |-> "", chain |-> last.chain,
                result |-> parse_conditions(last.result)]
    /\ UNCHANGED <<metadata, metadata_file, files>>

NextParse == ParseConditions

\* parse_conditions applied to every chain
SpecParse == InitParse /\ [][NextParse]_vars

----------------------------------------------------------------------------
(* The tokenizer (parser.rs) *)

\* number of characters of a tokenized input
MaxChars == 4

\* a character of U+1F600, whose UTF-8 encoding takes four bytes
WideChar == "U+1F600"

\* the characters of the inputs; a text is a sequence of characters
Chars == {"o", "r", "1", ".", " ", "\n", "'", "\\", "-", WideChar}

\* char::len_utf8
len_utf8(c) == IF c = WideChar THEN 4 ELSE 1

RECURSIVE str_len(_)
\* str::len: the number of bytes of a text
str_len(text) == IF text = <<>> THEN 0 ELSE len_utf8(text[1]) + str_len(Tail(text))

\* the number of characters that end at byte b of a text, None when b is not
\* a character boundary
chars_before(text, b) ==
    LET at == {n \in 0..Len(text) : str_len(SubSeq(text, 1, n)) = b}
    IN  IF at = {} THEN None ELSE Some(CHOOSE n \in at : TRUE)

\* &text[from..to]: None where the slice panics
slice(text, from, to) ==
    IF from > to \/ ~chars_before(text, from).some \/ ~chars_before(text, to).some
    THEN None
    ELSE Some(SubSeq(text, chars_before(text, from).v + 1, chars_before(text, to).v))

is_whitespace(c) == c \in {" ", "\n"}
is_digit(c) == c = "1"
is_alphabetic(c) == c \in {"o", "r"}
is_alphanumeric(c) == is_alphabetic(c) \/ is_digit(c)

\* char::to_uppercase on the characters of the model
char_to_uppercase(c) == IF c = "o" THEN "O" ELSE IF c = "r" THEN "R" ELSE c

\* the entries of the keywords array that the letters of the model spell
keywords == { <<"O", "R">> }

\* the entries of the operators array that the characters of the model spell
operators == << <<"-">> >>

\* the entries of the punctuation array that the characters of the model spell
punctuation == << <<".">> >>

\* the first entry of an array of texts that a text starts with, None without one
first_prefix(text, entries) ==
    LET hits == {k \in 1..Len(entries) : Len(text) >= Len(entries[k])
                                          /\ SubSeq(text, 1, Len(entries[k])) = entries[k]}
    IN  IF hits = {} THEN None
        ELSE Some(entries[CHOOSE k \in hits : \A j \in hits : k <= j])

\* str::starts_with
starts_with(text, prefix) ==
    Len(text) >= Len(prefix) /\ SubSeq(text, 1, Len(prefix)) = prefix

\* str::find of a character by a test: the byte index of the first character
\* of hits, None without one
find_first(text, hits) ==
    IF hits = {} THEN None
    ELSE Some(str_len(SubSeq(text, 1, (CHOOSE n \in hits : \A m \in hits : n <= m) - 1)))

\* TokenAt that records the start of the input as the position of every token
TokenAt_start(token_type, value, position) ==
    [token_type |-> token_type, value |-> value, position |-> 0]

\* struct Token as the tokenizer builds it
TokenAt(token_type, value, position) ==
    [token_type |-> token_type, value |-> value, position |-> position]

\* remainder.chars().nth(end): None past the last character
nth(text, end) == IF end < Len(text) THEN Some(text[end + 1]) ELSE None

RECURSIVE string_end(_, _, _, _)
\* the loop over a quoted literal: the value of end when it stops, None when
\* nth(end).unwrap() panics
string_end(remainder, quote, end, escaped) ==
    IF end >= str_len(remainder) THEN Some(end)
    ELSE IF ~nth(remainder, end).some THEN None
    ELSE IF escaped THEN string_end(remainder, quote, end + 1, FALSE)
    ELSE IF nth(remainder, end).v = "\\" THEN string_end(remainder, quote, end + 1, TRUE)
    ELSE IF nth(remainder, end).v = quote THEN Some(end)
    ELSE string_end(remainder, quote, end + 1, FALSE)

RECURSIVE number_end(_, _, _)
\* the loop over a numeric literal
number_end(remainder, end, has_dot) ==
    IF end >= str_len(remainder) THEN Some(end)
    ELSE IF ~nth(remainder, end).some THEN None
    ELSE IF is_digit(nth(remainder, end).v) THEN number_end(remainder, end + 1, has_dot)
    ELSE IF nth(remainder, end).v = "." /\ ~has_dot THEN number_end(remainder, end + 1, TRUE)
    ELSE Some(end)

RECURSIVE identifier_end(_, _)
\* the loop over an identifier or keyword
identifier_end(remainder, end) ==
    IF end >= str_len(remainder) THEN Some(end)
    ELSE IF ~nth(remainder, end).some THEN None
    ELSE IF is_alphanumeric(nth(remainder, end).v) \/ nth(remainder, end).v = "_"
    THEN identifier_end(remainder, end + 1)
    ELSE Some(end)

Tokenized(tokens) == [result |-> "ok", tokens |-> tokens]

\* an Err of tokenize: its message without the formatted character, and the
\* position formatted into it
TokenizeErr(message, position) == [result |-> message, position |-> position]

\* the token pushed for remainder[from..to], and the scan moved on by advance
\* bytes; a panic when the slice is not on character boundaries
pushed_token(tokens, token_type, remainder, from_to, position, advance_by) ==
    IF ~slice(remainder, from_to[1], from_to[2]).some THEN [step |-> "panic"]
    ELSE [step |-> "continue",
          tokens |-> Append(tokens, TokenAt(token_type,
                                            slice(remainder, from_to[1], from_to[2]).v,
                                            position)),
          position |-> position + advance_by]

\* one iteration of the while loop of tokenize on remainder = &input[position..]
scan(remainder, tokens, position) ==
    LET ws == find_first(remainder, {n \in 1..Len(remainder) : ~is_whitespace(remainder[n])})
    IN  IF ~ws.some THEN [step |-> "break", tokens |-> tokens, position |-> position]
        ELSE IF ws.v > 0
        THEN [step |-> "continue", tokens |-> tokens, position |-> position + ws.v]
        ELSE IF starts_with(remainder, <<"-", "-">>)
        THEN LET newline == find_first(remainder,
                                       {n \in 1..Len(remainder) : remainder[n] = "\n"})
                 end == IF newline.some THEN newline.v ELSE str_len(remainder)
             IN  pushed_token(tokens, "Comment", remainder, <<0, end>>, position, end)
        ELSE IF remainder[1] \in {"'", "\""}
        THEN LET end == string_end(remainder, remainder[1], 1, FALSE)
             IN  IF ~end.some THEN [step |-> "panic"]
                 ELSE IF end.v >= str_len(remainder)
                 THEN [step |-> "error",
                       error |-> TokenizeErr("Unterminated string literal", position)]
                 ELSE pushed_token(tokens, "StringLiteral", remainder, <<1, end.v>>,
                                   position, end.v + 1)
        ELSE IF is_digit(remainder[1])
        THEN LET end == number_end(remainder, 0, FALSE)
             IN  IF ~end.some THEN [step |-> "panic"]
                 ELSE pushed_token(tokens, "NumericLiteral", remainder, <<0, end.v>>,
                                   position, end.v)
        ELSE IF first_prefix(remainder, operators).some
        THEN LET op == first_prefix(remainder, operators).v
             IN  [step |-> "continue",
                  tokens |-> Append(tokens, TokenAt("Operator", op, position)),
                  position |-> position + str_len(op)]
        ELSE IF first_prefix(remainder, punctuation).some
        THEN LET p == first_prefix(remainder, punctuation).v
             IN  [step |-> "continue",
                  tokens |-> Append(tokens, TokenAt("Punctuation", p, position)),
                  position |-> position + str_len(p)]
        ELSE IF is_alphabetic(remainder[1]) \/ remainder[1] = "_"
        THEN LET end == identifier_end(remainder, 0)
                 identifier == slice(remainder, 0, end.v)
                 upper == [k \in 1..Len(identifier.v) |-> char_to_uppercase(identifier.v[k])]
             IN  IF ~end.some THEN [step |-> "panic"]
                 ELSE IF ~identifier.some THEN [step |-> "panic"]
                 ELSE pushed_token(tokens,
                                   IF upper \in keywords THEN "Keyword" ELSE "Identifier",
                                   remainder, <<0, end.v>>, position, end.v)
        ELSE [step |-> "error", error |-> TokenizeErr("Unexpected character", position)]

RECURSIVE tokenize_from(_, _, _)
\* the while loop of tokenize and the push of the EOF token behind it
tokenize_from(input, tokens, position) ==
    IF position >= str_len(input)
    THEN Tokenized(Append(tokens, TokenAt("EOF", <<>>, position)))
    ELSE IF ~slice(input, position, str_len(input)).some THEN [result |-> "panic"]
    ELSE
        LET next == scan(slice(input, position, str_len(input)).v, tokens, position)
        IN  CASE next.step = "continue" -> tokenize_from(input, next.tokens, next.position)
              [] next.step = "break" ->
                    Tokenized(Append(tokens, TokenAt("EOF", <<>>, position)))
              [] next.step = "error" -> next.error
              [] OTHER -> [result |-> "panic"]

tokenize(input) == tokenize_from(input, <<>>, 0)

\* the texts of at most n characters
Texts(n) == UNION { [1..k -> Chars] : k \in 0..n }

\* longer texts: quoted literals with a wide character, with `--`, unterminated
LongTexts ==
    { <<"'", WideChar, "-", "-", "-", "'">>,
      <<"'", "o", "-", "-", "r", "'">>,
      <<"'", "o", "\\", "'", "r", "'">>,
      <<"o", "r", " ", "'", "o", "o", "r">>,
      <<"'", "o", "'", " ", "-", "-", "o", "\n", "1", ".", "1">> }

\* Parser::new on a text: the call of tokenize is still to come
InitTokenize ==
    /\ metadata = <<>>
    /\ metadata_file = NoFile
    /\ files = <<>>
    /\ \E input \in Texts(MaxChars) \cup LongTexts :
           last = [op |-> "new", table |-> "", input |-> input, result |-> "none"]

Tokenize ==
    /\ last.op = "new"
    /\ last' = [op |-> "tokenize", table |-> "", input |-> last.input,
                result |-> tokenize(last.input)]
    /\ UNCHANGED <<metadata, metadata_file, files>>

NextTokenize == Tokenize

\* tokenize applied to every text
SpecTokenize == InitTokenize /\ [][NextTokenize]_vars

----------------------------------------------------------------------------
(* Statements parsed and handed to the storage (main.rs) *)

Kw(word) == Token("Keyword", word)
Id(name) == Token("Identifier", name)
Num(digits) == Token("NumericLiteral", digits)
Op(sign) == Token("Operator", sign)
Punct(sign) == Token("Punctuation", sign)
Eof == Token("EOF", "")

RECURSIVE separated(_, _)
\* the token lists of items, one after the other with separator between them
separated(items, separator) ==
    IF items = <<>> THEN <<>>
    ELSE IF Len(items) = 1 THEN items[1]
    ELSE items[1] \o separator \o separated(Tail(items), separator)

\* the tokens of INSERT INTO table [(columns)] VALUES (tuple), (tuple) ...
insert_tokens(table, columns, tuples) ==
    <<Kw("INSERT"), Kw("INTO"), Id(table)>>
    \o (IF columns.some
        THEN <<Punct("(")>>
             \o separated([k \in 1..Len(columns.v) |-> <<Id(columns.v[k])>>], <<Punct(",")>>)
             \o <<Punct(")")>>
        ELSE <<>>)
    \o <<Kw("VALUES")>>
    \o separated([k \in 1..Len(tuples) |->
                     <<Punct("(")>>
                     \o separated([j \in 1..Len(tuples[k]) |-> <<tuples[k][j]>>],
                                  <<Punct(",")>>)
                     \o <<Punct(")")>>],
                 <<Punct(",")>>)
    \o <<Eof>>

\* the INSERT statements: the columns and the value tuples that follow VALUES
InsertStatements ==
    { [columns |-> None, tuples |-> << <<Num("1"), Num("1.5")>> >>],
      [columns |-> None, tuples |-> << <<Num("1")>>, <<Num("1.5")>> >>],
      [columns |-> None, tuples |-> << <<Num("1"), Num("1.5")>>, <<Num("2"), Num("1.5")>> >>],
      [columns |-> Some(<<"y", "x">>), tuples |-> << <<Num("1.50"), Num("2")>> >>],
      [columns |-> None, tuples |-> << <<Num(TooLargeForI64), Num("1.5")>> >>],
      [columns |-> None, tuples |-> << <<Kw("NULL"), Kw("NULL")>> >>] }

\* the statements that are not INSERTs, as the tokenizer hands them over
OtherStatements ==
    { <<Kw("CREATE"), Kw("TABLE"), Id("a"), Punct("("), Id("x"), Kw("INTEGER"), Punct(","),
        Id("y"), Kw("REAL"), Punct(")"), Eof>>,
      <<Kw("CREATE"), Kw("TABLE"), Id("a"), Punct("("), Id("x"), Kw("INTEGER"), Punct(","),
        Id("x"), Kw("REAL"), Punct(")"), Eof>>,
      <<Kw("CREATE"), Id("INDEX"), Id("c"), Kw("ON"), Id("a"), Punct("("), Id("x"),
        Punct(")"), Eof>>,
      <<Kw("UPDATE"), Id("a"), Kw("SET"), Id("x"), Op("="), Num(TooLargeForI64), Eof>>,
      <<Kw("UPDATE"), Id("a"), Kw("SET"), Id("x"), Op("="), Num("1"), Punct(","),
        Id("y"), Op("="), Kw("NULL"), Kw("WHERE"), Id("x"), Op("="), Num("2"), Eof>>,
      <<Kw("SELECT"), Op("*"), Kw("FROM"), Id("a"), Kw("WHERE"), Id("x"), Op("="),
        Num(TooLargeForI64), Eof>>,
      <<Kw("SELECT"), Id("y"), Punct(","), Id("x"), Kw("FROM"), Id("a"), Kw("WHERE"),
        Id("x"), Op("="), Num("1"), Kw("ORDER"), Kw("BY"), Id("x"), Kw("DESC"),
        Kw("LIMIT"), Num("1"), Eof>>,
      <<Kw("SELECT"), Op("*"), Kw("FROM"), Id("a"), Kw("LIMIT"), Num("1.5"), Eof>>,
      <<Kw("DELETE"), Kw("FROM"), Id("a"), Kw("WHERE"), Id("x"), Op("="), Num("1"),
        Kw("AND"), Id("y"), Kw("IS"), Kw("NULL"), Eof>>,
      <<Kw("SELECT"), Op("*"), Kw("FROM"), Id("a"), Kw("WHERE"), Id("x"), Op("="), Eof>>,
      <<Kw("DELETE"), Kw("FROM"), Id("a"), Kw("WHERE"), Id("x"), Op("="), Id("y"), Eof>>,
      <<Kw("SELECT"), Op("*"), Kw("FROM"), Id("a"), Kw("WHERE"), Id("x"), Kw("LIKE"),
        Punct(")"), Eof>>,
      <<Kw("SELECT"), Op("*"), Kw("FROM"), Id("a"), Kw("WHERE"), Id("x"), Kw("LIKE"),
        Num("1"), Eof>>,
      <<Kw("DROP"), Kw("TABLE"), Id("a"), Eof>>,
      <<Kw("INSERT"), Kw("INTO"), Id("a"), Kw("VALUES"), Punct("("), Num("1"), Punct(","),
        Eof>>,
      <<Id("a"), Eof>>,
      <<Eof>> }

\* the inputs of the interpreter: the tokens of a statement and, for an INSERT,
\* its value tuples
StatementInputs ==
    { [tokens |-> insert_tokens("a", i.columns, i.tuples), tuples |-> i.tuples] :
        i \in InsertStatements }
    \cup { [tokens |-> tokens, tuples |-> <<>>] : tokens \in OtherStatements }

\* Parser::new(sql) followed by parser.parse()
ParseStatement ==
    \E input \in StatementInputs :
        /\ last' = [op |-> "parse", table |-> "", tuples |-> input.tuples,
                    result |-> parse(Parser(input.tokens))]
        /\ UNCHANGED <<metadata, metadata_file, files>>

\* the storage call main makes for a parsed statement
execute(S, statement) ==
    CASE statement.stmt = "CreateTable" ->
            [op |-> "create_table", table |-> statement.name,
             r |-> create_table(S, statement.name, statement.columns)]
      [] statement.stmt = "Insert" ->
            [op |-> "insert_row", table |-> statement.table,
             r |-> insert_row(S, statement.table, statement.columns, statement.values)]
      [] statement.stmt = "CreateIndex" ->
            [op |-> "create_index", table |-> statement.table,
             r |-> create_index(S, statement.table, statement.name, statement.columns)]
      [] statement.stmt = "DropTable" ->
            [op |-> "drop_table", table |-> statement.name,
             r |-> drop_table(S, statement.name)]
      [] statement.stmt = "Select" ->
            [op |-> "get_rows", table |-> statement.table,
             r |-> [state |-> S,
                    result |-> get_rows(S, statement.table, statement.columns,
                                        statement.conditions, statement.order_by,
                                        statement.limit).result]]

\* `if let Statement::... = parser.parse()? { storage....? }`
Execute ==
    /\ last.op = "parse"
    /\ last.result.result = "ok"
    /\ last.result.statement.stmt \in
           {"CreateTable", "Insert", "CreateIndex", "DropTable", "Select"}
    /\ LET e == execute(Cur, last.result.statement)
       IN  /\ TotalRows(e.r.state) <= MaxRows
           /\ metadata' = e.r.state.metadata
           /\ metadata_file' = e.r.state.metadata_file
           /\ files' = e.r.state.files
           /\ last' = [op |-> e.op, table |-> e.table, tuples |-> last.tuples,
                       result |-> e.r.result]

NextStmt == ParseStatement \/ Execute

\* statements parsed and executed one after the other on one storage
SpecStmt == Init /\ [][NextStmt]_vars

----------------------------------------------------------------------------
(* Parser::new and parse, the tokenizer taken one iteration at a time *)

RECURSIVE lexeme(_)
\* the String of a token's characters
lexeme(chars) == IF chars = <<>> THEN "" ELSE chars[1] \o lexeme(Tail(chars))

\* the tokens as the parser reads them: their type and their text
parser_tokens(tokens) ==
    [k \in 1..Len(tokens) |-> Token(tokens[k].token_type, lexeme(tokens[k].value))]

\* number of characters of the short inputs of the calls run step by step
MaxScanChars == 2

\* Parser::new(input) enters tokenize: no token yet, position 0
InitScan ==
    /\ metadata = <<>>
    /\ metadata_file = NoFile
    /\ files = <<>>
    /\ \E input \in Texts(MaxScanChars) \cup LongTexts :
           last = [op |-> "new", table |-> "", input |-> input, tokens |-> <<>>,
                   position |-> 0, result |-> [result |-> "none"]]

\* tokenize has returned (or aborted) with the given result
returned(run, result) == [run EXCEPT !.op = "tokenize", !.result = result]

\* the test of the while loop of tokenize and one iteration of its body, on
\* the input, tokens and position of a run
tokenize_step(run) ==
    IF run.position >= str_len(run.input)
    THEN returned(run, Tokenized(Append(run.tokens, TokenAt("EOF", <<>>, run.position))))
    ELSE IF ~slice(run.input, run.position, str_len(run.input)).some
    THEN returned(run, [result |-> "panic"])
    ELSE
        LET next == scan(slice(run.input, run.position, str_len(run.input)).v,
                         run.tokens, run.position)
        IN  CASE next.step = "continue" ->
                     [run EXCEPT !.op = "scan", !.tokens = next.tokens,
                                 !.position = next.position]
              [] next.step = "break" ->
                     returned(run, Tokenized(Append(run.tokens,
                                                    TokenAt("EOF", <<>>, run.position))))
              [] next.step = "error" -> returned(run, next.error)
              [] OTHER -> returned(run, [result |-> "panic"])

TokenizeStep ==
    /\ last.op \in {"new", "scan"}
    /\ last' = tokenize_step(last)
    /\ UNCHANGED <<metadata, metadata_file, files>>

\* parser.parse() on the parser Parser::new returned
ParseTokens ==
    /\ last.op = "tokenize"
    /\ last.result.result = "ok"
    /\ last' = [op |-> "parse", table |-> "", input |-> last.input,
                tokens |-> last.result.tokens, position |-> last.position,
                result |-> parse(Parser(parser_tokens(last.result.tokens)))]
    /\ UNCHANGED <<metadata, metadata_file, files>>

NextScan == TokenizeStep \/ ParseTokens

\* the tokenizer has not returned: a further TokenizeStep is possible
Scanning == last.op \in {"new", "scan"}

\* Parser::new(input) and parse() run to their end: a call that has started
\* keeps running, both in the loop of the tokenizer and on to parse(). The
\* first fairness condition is WF_vars(TokenizeStep) with Scanning written for
\* ENABLED <<TokenizeStep>>_vars
SpecScan ==
    /\ InitScan /\ [][NextScan]_vars
    /\ ([]<>~Scanning \/ []<><<TokenizeStep>>_vars)
    /\ WF_vars(ParseTokens)

----------------------------------------------------------------------------
(* LIKE conditions evaluated on rows *)

\* number of characters of a Text value
MaxLikeChars == 3

\* the characters of Text values
LikeChars == {"a", "%", "_"}

\* the values of the column that LIKE conditions look at
LikeValues ==
    { Text(t) : t \in UNION { [1..k -> LikeChars] : k \in 0..MaxLikeChars } }
    \cup {Integer(1), Integer(12), Real("1.5"), Real("0.0"), Null, Boolean(TRUE)}

\* the patterns of the LIKE conditions
LikePatterns ==
    UNION { [1..k -> LikeChars \cup {"1", "L"}] : k \in 0..2 }

\* the columns of the rows: the searched column behind another one
LikeColumns == <<Column("x", "Integer"), Column("t", "Text")>>

\* a row and a LIKE condition on its column t, or on a column the row does not have
InitLike ==
    /\ metadata = <<>>
    /\ metadata_file = NoFile
    /\ files = <<>>
    /\ \E value \in LikeValues, pattern \in LikePatterns, column \in {"t", "z"} :
           last = [op |-> "new", table |-> "", row |-> <<Integer(1), value>>,
                   condition |-> Like(column, pattern), result |-> FALSE]

EvaluateLike ==
    /\ last.op = "new"
    /\ last' = [last EXCEPT !.op = "evaluate",
                            !.result = evaluate(last.condition, last.row, LikeColumns)]
    /\ UNCHANGED <<metadata, metadata_file, files>>

NextLike == EvaluateLike

\* Condition::evaluate applied to LIKE conditions
SpecLike == InitLike /\ [][NextLike]_vars

----------------------------------------------------------------------------
(* Properties of the storage engine *)

Base == <<metadata, metadata_file, files>>

Last(seq) == seq[Len(seq)]

\* C2: after every storage call that returns success, each table of the catalog
\* has a data file, and its row_count is the number of lines of that file.
C2_RowCountIsLineCount ==
    last.result = "ok" =>
        \A t \in DOMAIN metadata :
            /\ table_path(t) \in DOMAIN files
            /\ metadata[t].row_count = Len(files[table_path(t)])

C2_Witness ==
    /\ last.op = "insert_row" /\ last.result = "ok"
    /\ \E t \in DOMAIN metadata : metadata[t].row_count = 2
    /\ \E t \in DOMAIN metadata : metadata[t].row_count = 0

\* the variant a DataType admits
MatchesType(v, data_type) == v.tag = "Null" \/ v.tag = data_type

\* C4: every line of a table's data file holds as many values as the table has
\* columns, each the text of Null or of a value of the column's declared type.
C4_StoredRowsMatchSchema ==
    \A t \in DOMAIN metadata :
        table_path(t) \in DOMAIN files =>
            \A n \in 1..Len(files[table_path(t)]) :
                LET line == files[table_path(t)][n]
                    columns == metadata[t].columns
                IN  /\ Len(line) = Len(columns)
                    /\ \A k \in 1..Len(line) :
                           \E v \in Values : /\ to_json_value(v) = line[k]
                                             /\ MatchesType(v, columns[k].data_type)

C4_Witness ==
    /\ last.op = "insert_row" /\ last.result = "ok"
    /\ "a" \in DOMAIN metadata
    /\ \E n \in 1..Len(files[table_path("a")]) :
           files[table_path("a")][n] = <<to_json_value(Integer(1)), to_json_value(Null)>>
    /\ \E n \in 1..Len(files[table_path("a")]) :
           files[table_path("a")][n] = <<to_json_value(Integer(1)), to_json_value(Real("1.5"))>>

InsertCheckErrors ==
    { "Table not found",
      "Number of column names does not match number of values",
      "Number of values does not match number of columns",
      "Type mismatch" }

\* C5: an insert_row call that fails with table-not-found, a count mismatch or a
\* type mismatch changes no data file, no index file and neither catalog.
C5_FailedInsertChangesNothing ==
    [][(last'.op = "insert_row" /\ last'.result \in InsertCheckErrors)
           => UNCHANGED Base]_vars

C5_Witness ==
    /\ last.op = "insert_row" /\ last.result = "Type mismatch"
    /\ last.table \in DOMAIN metadata
    /\ metadata[last.table].indexes # <<>>
    /\ metadata[last.table].row_count > 0

\* C6: a successful insert_row with an explicit column list appends a row in
\* schema column order: a schema column the list names holds a value supplied
\* under that name, a schema column the list does not name holds Null.
C6_ExplicitColumnsInSchemaOrder ==
    [][(last'.op = "insert_row" /\ last'.result = "ok") =>
          \A input \in InsertInputs :
              (input[1].some /\ InsertRowOn(last'.table, input)) =>
                  LET t == last'.table
                      columns == metadata[t].columns
                      names == input[1].v
                      line == Last(files'[table_path(t)])
                  IN  /\ Len(files'[table_path(t)]) = Len(files[table_path(t)]) + 1
                      /\ Len(line) = Len(columns)
                      /\ \A k \in 1..Len(columns) :
                             IF \E i \in 1..Len(names) : names[i] = columns[k].name
                             THEN \E i \in 1..Len(names) :
                                      /\ names[i] = columns[k].name
                                      /\ line[k] = to_json_value(input[2][i])
                             ELSE line[k] = to_json_value(Null)]_vars

C6_Witness ==
    /\ last.op = "insert_row" /\ last.result = "ok" /\ last.table = "a"
    /\ \E n \in 1..Len(files[table_path("a")]) :
           files[table_path("a")][n] = <<to_json_value(Integer(1)), to_json_value(Null)>>

\* the conditions and limits the index path is compared on
EqualValues == {Null, Integer(1), Real("1.5")}

EqualLists ==
    { <<Equal(c, v)>> : c \in {"x", "y"}, v \in EqualValues }
    \cup { <<Equal("x", v), Equal("y", w)>> : v \in EqualValues, w \in EqualValues }

Occurrences(rows, row) == Cardinality({k \in 1..Len(rows) : rows[k] = row})

SameMultiset(rows1, rows2) ==
    /\ Len(rows1) = Len(rows2)
    /\ \A k \in 1..Len(rows1) : Occurrences(rows1, rows1[k]) = Occurrences(rows2, rows1[k])

\* two get_rows results that are the same: both fail, or both return the same rows
SameOutcome(r1, r2) ==
    /\ (r1.result = "ok") = (r2.result = "ok")
    /\ r1.result = "ok" => SameMultiset(r1.rows, r2.rows)

IndexScanEquivalent(S) ==
    \A t \in DOMAIN S.metadata :
        \A k \in 1..Len(S.metadata[t].indexes) :
            \A conditions \in EqualLists, limit \in Limits :
                SameOutcome(
                    get_rows(S, t, <<"*">>, Some(conditions), None, limit),
                    get_rows(drop_index(S, t, S.metadata[t].indexes[k].name).state,
                             t, <<"*">>, Some(conditions), None, limit))

\* C1: in every storage state reached by successful calls, for every index of
\* a table, every list of top-level Equal conditions and every limit, get_rows
\* returns the same multiset of rows as it does once that index is dropped.
C1_IndexScanEquivalence ==
    [][(last'.result = "ok" /\ last'.op # "get_rows" /\ IndexScanEquivalent(Cur))
           => IndexScanEquivalent(Cur')]_vars

\* the values insert_row is handed, in schema column order
Normalised(columns, input) ==
    IF input[1].some
    THEN [k \in 1..Len(columns) |->
             IF \E i \in 1..Len(input[1].v) : input[1].v[i] = columns[k].name
             THEN input[2][CHOOSE i \in 1..Len(input[1].v) : input[1].v[i] = columns[k].name]
             ELSE Null]
    ELSE input[2]

SelectAll(S, t) == get_rows(S, t, <<"*">>, None, None, None)

\* C3: after a successful insert_row, get_rows with ["*"], no conditions, no
\* order and no limit returns the rows it returned before followed by the
\* inserted values in schema column order.
C3_InsertSelectRoundTrip ==
    [][(last'.op = "insert_row" /\ last'.result = "ok") =>
          \A input \in InsertInputs :
              (InsertRowOn(last'.table, input) /\ SelectAll(Cur, last'.table).result = "ok") =>
                  SelectAll(Cur', last'.table) =
                      Rows(Append(SelectAll(Cur, last'.table).rows,
                                  Normalised(metadata[last'.table].columns, input)))]_vars

\* the lines an index file has to hold for the data file of its table
ExpectedEntries(table_columns, index_columns, data) ==
    [n \in 1..Len(data) |->
        IndexEntry(json_array([j \in 1..Len(index_columns) |->
                                  data[n][column_position(table_columns, index_columns[j])]]),
                   line_offset(data, n))]

IndexFilesExact(S) ==
    \A t \in DOMAIN S.metadata :
        \A k \in 1..Len(S.metadata[t].indexes) :
            LET index == S.metadata[t].indexes[k]
            IN  /\ index.file_path \in DOMAIN S.files
                /\ table_path(t) \in DOMAIN S.files
                /\ S.files[index.file_path] =
                       ExpectedEntries(S.metadata[t].columns, index.columns,
                                       S.files[table_path(t)])

\* C7: after every storage call that returns success, the file of every
\* registered index holds exactly one line per line of its table's data file,
\* in order, with the key of that row and the byte offset at which it starts.
C7_IndexFilesMirrorDataFiles ==
    [][(last'.result = "ok" /\ IndexFilesExact(Cur)) => IndexFilesExact(Cur')]_vars

TableNotFoundErrors == {"Table not found", "Table does not exist"}

\* C8: a successful drop_table(t) leaves no catalog entry for t, no data file
\* of t and no file of an index t had; every call naming a table that is not
\* in the catalog, other than create_table, fails with a table-not-found error
\* and changes nothing.
C8_DroppedTableIsGone ==
    [][/\ (last'.op = "drop_table" /\ last'.result = "ok") =>
              LET t == last'.table
              IN  /\ t \in DOMAIN metadata
                  /\ t \notin DOMAIN metadata'
                  /\ t \notin DOMAIN load_metadata(metadata_file')
                  /\ table_path(t) \notin DOMAIN files'
                  /\ \A k \in 1..Len(metadata[t].indexes) :
                         metadata[t].indexes[k].file_path \notin DOMAIN files'
       /\ (last'.op \in {"insert_row", "get_rows", "create_index", "drop_index", "drop_table"}
               /\ last'.table \notin DOMAIN metadata) =>
              /\ last'.result \in TableNotFoundErrors
              /\ UNCHANGED Base]_vars

C8_Witness ==
    /\ last.op = "drop_table" /\ last.result = "ok" /\ last.table = "a"
    /\ "a_b" \in DOMAIN metadata
    /\ metadata["a_b"].indexes # <<>>
    /\ metadata["a_b"].row_count > 0

CreateIndexCheckErrors == {"Table does not exist", "Index already exists", "Column not found"}

UniqueIndexNames(m) ==
    \A t \in DOMAIN m :
        \A j, k \in 1..Len(m[t].indexes) :
            m[t].indexes[j].name = m[t].indexes[k].name => j = k

\* C10: create_index fails with table-not-found when the table is absent, with
\* index-already-exists when the table has an index of that name, and with
\* column-not-found when the name is free and a listed column is not in the
\* schema; a call failing so changes no file and neither catalog, and index
\* names stay unique within every table.
C10_CreateIndexChecks ==
    [][/\ last'.op = "create_index" =>
              \A input \in IndexInputs :
                  CreateIndexOn(input) =>
                      LET t == input[1]
                          taken == \E k \in 1..Len(metadata[t].indexes) :
                                       metadata[t].indexes[k].name = input[2]
                          unknown == \E k \in 1..Len(input[3]) :
                                         \A c \in 1..Len(metadata[t].columns) :
                                             metadata[t].columns[c].name # input[3][k]
                      IN  /\ t \notin DOMAIN metadata => last'.result = "Table does not exist"
                          /\ (t \in DOMAIN metadata /\ taken) =>
                                 last'.result = "Index already exists"
                          /\ (t \in DOMAIN metadata /\ ~taken /\ unknown) =>
                                 last'.result = "Column not found"
                          /\ last'.result \in CreateIndexCheckErrors => UNCHANGED Base
       /\ UniqueIndexNames(metadata')]_vars

C10_Witness ==
    /\ last.op = "create_index" /\ last.result = "Index already exists"
    /\ metadata[last.table].row_count > 0

\* C11: create_table on a name the catalog holds fails with table-already-exists
\* and changes neither catalog and no file, so the table keeps its schema, its
\* row count, its index list, its data file and its index files; create_table
\* on a new name succeeds and leaves a table with the given columns, row count
\* 0, no index and an empty data file.
C11_CreateTableOutcome ==
    [][last'.op = "create_table" =>
          \A input \in TableInputs :
              CreateTableOn(input) =>
                  IF input[1] \in DOMAIN metadata
                  THEN /\ last'.result = "Table already exists"
                       /\ UNCHANGED Base
                  ELSE /\ last'.result = "ok"
                       /\ metadata'[input[1]] =
                              [name |-> input[1], columns |-> input[2],
                               row_count |-> 0, indexes |-> <<>>]
                       /\ files'[table_path(input[1])] = <<>>
                       /\ \A t \in DOMAIN metadata : metadata'[t] = metadata[t]
                       /\ \A p \in DOMAIN files :
                              p # table_path(input[1]) => files'[p] = files[p]]_vars

C11_Witness ==
    /\ last.op = "create_table" /\ last.result = "Table already exists"
    /\ metadata[last.table].row_count > 0
    /\ metadata[last.table].indexes # <<>>
    /\ files[table_path(last.table)] # <<>>

\* the storage calls that change the catalog
MutatingCalls == {"create_table", "insert_row", "create_index", "drop_index", "drop_table"}

\* C12: after every mutating storage call that returns success, Storage::new on
\* the same directory loads a catalog equal to the one in memory and get_rows
\* answers every query as before; a metadata file that is absent or empty loads
\* as the empty catalog.
C12_RestartKeepsCatalog ==
    /\ (last.op \in MutatingCalls /\ last.result = "ok") =>
           LET R == new(Cur).state
           IN  /\ R.metadata = metadata
               /\ \A t \in TableNames, q \in Queries :
                      get_rows(R, t, q.columns, q.conditions, q.order_by, q.limit)
                          = get_rows(Cur, t, q.columns, q.conditions, q.order_by, q.limit)
    /\ (~metadata_file.exists \/ metadata_file.contents = <<>>) =>
           new(Cur).state.metadata = <<>>

C12_Witness ==
    /\ last.op = "insert_row" /\ last.result = "ok"
    /\ metadata["a"].row_count = 2
    /\ metadata["a"].indexes # <<>>
    /\ new(Cur).state.metadata["a"].row_count = 2

\* C13: a mutating storage call that starts with the persisted catalog equal to
\* the catalog in memory ends with the two equal again, whether it returns
\* success or fails, a failure of the write of metadata.json included.
C13_CatalogsAgreeAfterEveryCall ==
    [][(last'.op \in MutatingCalls /\ load_metadata(metadata_file) = metadata)
          => load_metadata(metadata_file') = metadata']_vars

\* the rows a table holds: its data file read line by line
StoredRows(S, t) ==
    [k \in 1..Len(S.files[table_path(t)]) |-> deserialize_row(S.files[table_path(t)][k]).row]

\* the rows of a table for which every condition of the list is true, in file order
MatchingRows(S, t, conditions) ==
    LET columns == S.metadata[t].columns
    IN  SelectSeq(StoredRows(S, t), LAMBDA row : match_all(conditions, row, columns))

\* the condition lists the filter is checked on
FilterLists ==
    EqualLists
    \cup { <<IsNull("y")>>, <<IsNotNull("y")>>, <<NotEqual("x", Integer(1))>>,
           <<GreaterEqual("x", Integer(1))>>, <<LessThan("x", Integer(1))>>,
           <<Equal("x", Integer(1)), IsNotNull("y")>>,
           <<Or(IsNull("x"), Equal("x", Integer(1)))>>,
           <<And(Equal("x", Integer(1)), GreaterThan("y", Real("0.0")))>> }

\* C14: with no limit and no ORDER BY, get_rows with a condition list returns
\* exactly the rows of the table for which every condition is true, each once
\* and in data-file order, on the index path as on the full-scan path.
C14_FilterReturnsMatchingRows ==
    \A t \in DOMAIN metadata :
        table_path(t) \in DOMAIN files =>
            \A conditions \in FilterLists :
                LET r == get_rows(Cur, t, <<"*">>, Some(conditions), None, None)
                IN  /\ r.result = "ok"
                    /\ r.rows = MatchingRows(Cur, t, conditions)

Min(a, b) == IF a <= b THEN a ELSE b

\* the limits get_rows is checked on
LimitValues == {0, 1, 2}

\* C15: get_rows with limit k returns min(k, number of matching rows) rows, so
\* never more than k, and none for k = 0, whatever the table holds and whatever
\* the condition list, on the index path as on the full-scan path.
C15_LimitCapsResult ==
    \A t \in DOMAIN metadata :
        table_path(t) \in DOMAIN files =>
            \A conditions \in FilterLists, k \in LimitValues :
                LET r == get_rows(Cur, t, <<"*">>, Some(conditions), None, Some(k))
                IN  /\ r.result = "ok"
                    /\ Len(r.rows) = Min(k, Len(MatchingRows(Cur, t, conditions)))

Reverse(seq) == [i \in 1..Len(seq) |-> seq[Len(seq) + 1 - i]]

\* the values the rows hold at position c
Keys(rows, c) == [i \in 1..Len(rows) |-> rows[i][c]]

\* rows are in ascending order of the values at position c, Null first
AscendingBy(rows, c) ==
    \A i, j \in 1..Len(rows) :
        i < j => /\ cmp(rows[i][c], rows[j][c]) \in {"Less", "Equal"}
                 /\ rows[j][c] = Null => rows[i][c] = Null

\* the rows with a given value at position c follow each other as in collected
KeepsOrderOfEqual(rows, collected, c) ==
    \A i \in 1..Len(collected) :
        LET same(row) == value_eq(row[c], collected[i][c])
        IN  SelectSeq(rows, same) = SelectSeq(collected, same)

\* what get_rows returns on the sorted table a for an ORDER BY on its column c
Sorted(c, conditions, direction, limit) ==
    get_rows(Cur, "a", <<"*">>, conditions, Some(OrderBy(SchemaXY[c].name, direction)), limit)

\* what get_rows collects on the sorted table a when no ORDER BY is given
Collected(conditions, limit) == get_rows(Cur, "a", <<"*">>, conditions, None, limit)

\* C16 as stated: the Ascending result is the collected rows in ascending order
\* of the column, Null first, and the Descending result is the Ascending one
\* read backwards, row by row.
C16_DescendingIsReversedRows ==
    "a" \in DOMAIN metadata =>
        \A c \in 1..Len(SchemaXY), conditions \in SortConditions :
            \A asc \in {Sorted(c, conditions, Ascending, None).rows},
               desc \in {Sorted(c, conditions, Descending, None).rows},
               collected \in {Collected(conditions, None).rows} :
                /\ AscendingBy(asc, c)
                /\ SameMultiset(asc, collected)
                /\ desc = Reverse(asc)

\* C16, amended: the Ascending result is the collected rows in ascending order
\* of the column, Null first; the Descending result holds the column's values
\* in exactly the reversed sequence; both are permutations of the collected
\* rows, and in both the rows that agree on the column keep their collected
\* order, so that the rows themselves come back reversed when the column's
\* values are all different.
C16_OrderBySorts ==
    "a" \in DOMAIN metadata =>
        \A c \in 1..Len(SchemaXY), conditions \in SortConditions :
            \A asc \in {Sorted(c, conditions, Ascending, None)},
               desc \in {Sorted(c, conditions, Descending, None)},
               collected \in {Collected(conditions, None)} :
                /\ asc.result = "ok" /\ desc.result = "ok" /\ collected.result = "ok"
                /\ AscendingBy(asc.rows, c)
                /\ Keys(desc.rows, c) = Reverse(Keys(asc.rows, c))
                /\ SameMultiset(asc.rows, collected.rows)
                /\ SameMultiset(desc.rows, collected.rows)
                /\ KeepsOrderOfEqual(asc.rows, collected.rows, c)
                /\ KeepsOrderOfEqual(desc.rows, collected.rows, c)
                /\ (\A i, j \in 1..Len(collected.rows) :
                        value_eq(collected.rows[i][c], collected.rows[j][c]) => i = j)
                       => desc.rows = Reverse(asc.rows)

C16_Witness ==
    /\ last.op = "get_rows" /\ last.result = "ok"
    /\ "a" \in DOMAIN metadata
    /\ Keys(StoredRows(Cur, "a"), 1) = <<Integer(3), Integer(1), Null>>
    /\ Keys(Sorted(1, None, Ascending, None).rows, 1)
           = <<Null, Integer(1), Integer(3)>>
    /\ Keys(Sorted(1, None, Descending, None).rows, 1)
           = <<Integer(3), Integer(1), Null>>

\* the first k of the rows of table a that match, in data-file order
FirstMatching(conditions, k) ==
    LET all == IF conditions.some THEN MatchingRows(Cur, "a", conditions.v)
               ELSE StoredRows(Cur, "a")
    IN  SubSeq(all, 1, Min(k, Len(all)))

\* C17: with a limit k and an ORDER BY, get_rows returns the first k matching
\* rows, taken in file order, sorted by the column: never more than k rows, and
\* not the first k rows of the sorted table.
C17_LimitBeforeSort ==
    "a" \in DOMAIN metadata =>
        \A c \in 1..Len(SchemaXY), conditions \in SortConditions,
           direction \in SortDirections, k \in 0..3 :
            \A r \in {Sorted(c, conditions, direction, Some(k))},
               first \in {FirstMatching(conditions, k)} :
                LET keys == IF direction = Ascending THEN Keys(r.rows, c)
                            ELSE Reverse(Keys(r.rows, c))
                IN  /\ r.result = "ok"
                    /\ Len(r.rows) <= k
                    /\ SameMultiset(r.rows, first)
                    /\ \A i, j \in 1..Len(keys) :
                           i < j => cmp(keys[i], keys[j]) \in {"Less", "Equal"}
                    /\ KeepsOrderOfEqual(r.rows, first, c)

C17_Witness ==
    /\ last.op = "get_rows" /\ last.result = "ok"
    /\ "a" \in DOMAIN metadata
    /\ Keys(StoredRows(Cur, "a"), 1) = <<Integer(3), Integer(1), Null>>
    /\ Keys(Sorted(1, None, Ascending, Some(2)).rows, 1) = <<Integer(1), Integer(3)>>
    /\ Keys(Sorted(1, None, Ascending, None).rows, 1)
           = <<Null, Integer(1), Integer(3)>>

\* a column name that no schema holds
AbsentColumn == "z"

\* C18: a projection list that names a column absent from the table's schema
\* makes get_rows fail, for every table content and every condition list,
\* whether or not any row matches.
C18_AbsentProjectedColumnFails ==
    \A t \in DOMAIN metadata :
        \A conditions \in {None, Some(<<Equal("x", Integer(1))>>)} :
            get_rows(Cur, t, <<"x", AbsentColumn>>, conditions, None, None).result # "ok"

\* C19: a get_rows call whose condition list or ORDER BY names a column absent
\* from the table's schema fails; it never succeeds with a row set computed as
\* if the condition were false.
C19_AbsentConditionColumnFails ==
    \A t \in DOMAIN metadata :
        /\ get_rows(Cur, t, <<"*">>, None,
                    Some(OrderBy(AbsentColumn, Ascending)), None).result # "ok"
        /\ get_rows(Cur, t, <<"*">>, Some(<<Equal(AbsentColumn, Integer(1))>>),
                    None, None).result # "ok"

\* the conditions that the simple conditions of a chain stand for
SimpleConditions == <<Equal("x", Integer(1)), IsNull("y"), IsNotNull("x")>>

RECURSIVE LeftNested(_, _)
\* the left-nested tree ((c1 op1 c2) op2 c3) ... of the first n simple
\* conditions of a chain
LeftNested(chain, n) ==
    IF n = 1 THEN SimpleConditions[chain.conds[1]]
    ELSE IF chain.ops[n - 1] \in {"AND", "and"}
    THEN And(LeftNested(chain, n - 1), SimpleConditions[chain.conds[n]])
    ELSE Or(LeftNested(chain, n - 1), SimpleConditions[chain.conds[n]])

\* C20: parse_conditions folds a chain c1 op1 c2 op2 c3 ... of AND/OR
\* combinators pairwise from left to right, with no precedence between AND and
\* OR: the result is the single left-nested tree ((c1 op1 c2) op2 c3) ...,
\* and the parser is left on the token that follows the chain.
C20_ConditionsFoldLeft ==
    last.op = "parse_conditions" =>
        /\ last.result.result = "ok"
        /\ last.result.conditions
               = Some(<<LeftNested(last.chain, Len(last.chain.conds))>>)
        /\ last.result.parser.current
               = Len(last.result.parser.tokens) - Len(last.chain.rest)

\* a OR b AND c is parsed as And{Or{a, b}, c}
C20_Witness ==
    /\ last.op = "parse_conditions"
    /\ last.chain.conds = <<1, 2, 3>>
    /\ last.chain.ops = <<"OR", "AND">>
    /\ last.result.result = "ok"
    /\ last.result.conditions
           = Some(<<And(Or(Equal("x", Integer(1)), IsNull("y")), IsNotNull("x"))>>)

\* C21: parse() returns one Statement or a parse error and never aborts; an
\* integer literal beyond the 64-bit signed range, in a VALUES tuple, a SET
\* assignment or a WHERE comparison, gives a parse error.
C21_ParseNeverAborts ==
    last.op = "parse" => last.result.result # "panic"

\* the values that the tokens of one value tuple stand for
TupleValues(tuple) ==
    {parse_value(Parser(<<tuple[j]>>)).value : j \in 1..Len(tuple)}

\* C30: an INSERT statement with k value tuples after VALUES keeps the tuples
\* apart: when its fields are passed to insert_row, no stored row is built from
\* values of more than one tuple.
C30_InsertKeepsTuplesApart ==
    (last.op = "insert_row" /\ last.result = "ok") =>
        LET stored == deserialize_row(Last(files[table_path(last.table)])).row
        IN  \E k \in 1..Len(last.tuples) :
                \A c \in 1..Len(stored) : stored[c] \in TupleValues(last.tuples[k])

\* C22: whenever tokenization succeeds, the tokens end with the end marker,
\* hold no other end marker, and their positions are strictly increasing byte
\* positions of the input; an input of only whitespace, or the empty input,
\* yields just the end marker.
C22_TokensEndWithOneEof ==
    (last.op = "tokenize" /\ last.result.result = "ok") =>
        LET tokens == last.result.tokens
        IN  /\ tokens # <<>>
            /\ Last(tokens).token_type = "EOF"
            /\ \A k \in 1..(Len(tokens) - 1) :
                   /\ tokens[k].token_type # "EOF"
                   /\ tokens[k].position < tokens[k + 1].position
            /\ \A k \in 1..Len(tokens) :
                   /\ tokens[k].position \in 0..str_len(last.input)
                   /\ chars_before(last.input, tokens[k].position).some
            /\ (\A n \in 1..Len(last.input) : is_whitespace(last.input[n]))
                   => tokens = <<TokenAt("EOF", <<>>, 0)>>

\* `o 1 ` gives an identifier at 0, a number at 2 and the end marker at 3
C22_Witness ==
    /\ last.op = "tokenize"
    /\ last.input = <<"o", " ", "1", " ">>
    /\ last.result.result = "ok"
    /\ [k \in 1..Len(last.result.tokens) |->
           <<last.result.tokens[k].token_type, last.result.tokens[k].position>>]
           = << <<"Identifier", 0>>, <<"NumericLiteral", 2>>, <<"EOF", 3>> >>

RECURSIVE ClosingQuote(_, _, _)
\* the place, counted in characters, of the first unescaped ' of a text from
\* place n on, 0 without one
ClosingQuote(text, n, escaped) ==
    IF n > Len(text) THEN 0
    ELSE IF escaped THEN ClosingQuote(text, n + 1, FALSE)
    ELSE IF text[n] = "\\" THEN ClosingQuote(text, n + 1, TRUE)
    ELSE IF text[n] = "'" THEN n
    ELSE ClosingQuote(text, n + 1, FALSE)

\* C23: a quote starts a string literal that extends to the next unescaped
\* matching quote; without such a quote tokenization fails with an error that
\* carries the literal's start position; a `--` inside a quoted literal never
\* gives a Comment token.
C23_QuotedLiteralIsOneToken ==
    (last.op = "tokenize" /\ last.input # <<>> /\ last.input[1] = "'") =>
        LET close == ClosingQuote(last.input, 2, FALSE)
            literal == TokenAt("StringLiteral", SubSeq(last.input, 2, close - 1), 0)
            behind == str_len(SubSeq(last.input, 1, close))
        IN  /\ close = 0 =>
                   last.result = TokenizeErr("Unterminated string literal", 0)
            /\ close = Len(last.input) =>
                   last.result = Tokenized(<<literal, TokenAt("EOF", <<>>, behind)>>)
            /\ (close # 0 /\ last.result.result = "ok") =>
                   /\ last.result.tokens[1] = literal
                   /\ \A k \in 2..Len(last.result.tokens) :
                          last.result.tokens[k].position >= behind

\* C24: Like{column, pattern} is true on a row iff the displayed text of the
\* row's value in that column holds the pattern as a contiguous run of
\* characters, `%` and `_` standing for themselves.
C24_LikeIsSubstringSearch ==
    (last.op = "evaluate" /\ last.condition.column = "t") =>
        LET text == to_string(last.row[2])
            pattern == last.condition.pattern
        IN  last.result <=>
                \E before, behind \in 0..Len(text) :
                    /\ before + Len(pattern) + behind = Len(text)
                    /\ \A k \in 1..Len(pattern) : text[before + k] = pattern[k]

\* `a%` is not found in `aaa`, where a wildcard % would match
C24_Witness ==
    /\ last.op = "evaluate"
    /\ last.condition = Like("t", <<"a", "%">>)
    /\ last.row[2] = Text(<<"a", "a", "a">>)
    /\ last.result = FALSE

\* the columns compared by the top-level Equal conditions of a list
EqualColumns(conditions) ==
    {conditions[k].column : k \in {j \in 1..Len(conditions) : conditions[j].kind = "Equal"}}

\* the places, in registration order, of the indexes of table a whose non-empty
\* column set lies within the columns compared by top-level Equal conditions
CoveredIndexes(conditions) ==
    LET indexes == metadata["a"].indexes
    IN  {i \in 1..Len(indexes) :
            /\ indexes[i].columns # <<>>
            /\ \A k \in 1..Len(indexes[i].columns) :
                   indexes[i].columns[k] \in EqualColumns(conditions)}

\* the lists with a top-level Equal on x next to a condition that is combined
\* or is not an equality
MixedConditions ==
    {conditions \in LookupConditions :
        /\ \E k \in 1..Len(conditions) : conditions[k].kind = "Equal"
        /\ \E k \in 1..Len(conditions) : conditions[k].kind # "Equal"}

\* C25 as stated: a list that holds a combined or a non-equality condition never
\* uses an index, also when its top-level Equal conditions cover an index.
C25_MixedListsNeverUseIndex ==
    "a" \in DOMAIN metadata =>
        \A conditions \in MixedConditions :
            ~find_usable_index(Cur, "a", conditions).some

\* C25: the use of an index depends on the top-level Equal conditions alone.
\* get_rows takes the index path exactly when some index has its non-empty
\* column set within the columns of the top-level Equal conditions, whatever
\* other conditions the list holds; a list without a top-level Equal, such as a
\* single And/Or tree, takes the full scan.
C25_EqualConditionsDecideIndexUse ==
    "a" \in DOMAIN metadata =>
        \A conditions \in LookupConditions :
            \A r \in {get_rows(Cur, "a", <<"*">>, Some(conditions), None, None)},
               use_index \in {find_usable_index(Cur, "a", conditions)} :
                /\ use_index.some <=> CoveredIndexes(conditions) # {}
                /\ use_index.some =>
                       r = get_rows_using_index(Cur, "a", use_index.v, conditions, None)
                /\ ~use_index.some =>
                       r = full_scan(Cur, "a", Some(conditions), None, 0, <<>>)

\* x = 1 AND-ed at top level with y IS NOT NULL is answered through the index on x
C25_Witness ==
    /\ last.op = "get_rows" /\ last.result = "ok"
    /\ last.conditions = <<Equal("x", Integer(1)), IsNotNull("y")>>
    /\ "a" \in DOMAIN metadata
    /\ Len(metadata["a"].indexes) = 1
    /\ metadata["a"].indexes[1].columns = <<"x">>
    /\ Len(files[table_path("a")]) = 2
    /\ find_usable_index(Cur, "a", last.conditions) = Some("c")

\* the value of the first top-level Equal condition of a list on a column
FirstEqualValue(conditions, column) ==
    LET on == {k \in 1..Len(conditions) :
                  conditions[k].kind = "Equal" /\ conditions[k].column = column}
    IN  conditions[CHOOSE k \in on : \A j \in on : k <= j].value

\* C26: when several indexes have their non-empty column set within the
\* columns of the top-level Equal conditions, get_rows uses the one registered
\* first, and looks up the key made of the values of the first top-level Equal
\* condition on each of that index's columns, in the index's column order.
C26_EarliestCoveredIndexIsUsed ==
    "a" \in DOMAIN metadata =>
        \A conditions \in LookupConditions :
            CoveredIndexes(conditions) # {} =>
                LET indexes == metadata["a"].indexes
                    first == CHOOSE i \in CoveredIndexes(conditions) :
                                 \A j \in CoveredIndexes(conditions) : i <= j
                    key == json_array(serialize_row(
                               [k \in 1..Len(indexes[first].columns) |->
                                   FirstEqualValue(conditions, indexes[first].columns[k])]))
                IN  /\ find_usable_index(Cur, "a", conditions) = Some(indexes[first].name)
                    /\ key_pattern(indexes[first].columns, conditions) = key
                    /\ get_rows(Cur, "a", <<"*">>, Some(conditions), None, None)
                           = get_rows_using_index(Cur, "a", indexes[first].name,
                                                  conditions, None)

\* both indexes are covered by y = 1.5, x = 1, x = 2; the one on (y, x),
\* registered first, is used with the key of 1.5 and 1
C26_Witness ==
    /\ last.op = "get_rows" /\ last.result = "ok"
    /\ last.conditions = <<Equal("y", Real("1.5")), Equal("x", Integer(1)),
                           Equal("x", Integer(2))>>
    /\ "a" \in DOMAIN metadata
    /\ [i \in 1..Len(metadata["a"].indexes) |-> metadata["a"].indexes[i].name]
           = <<"d", "c">>
    /\ Len(files[table_path("a")]) = 2
    /\ find_usable_index(Cur, "a", last.conditions) = Some("d")
    /\ key_pattern(<<"y", "x">>, last.conditions)
           = json_array(serialize_row(<<Real("1.5"), Integer(1)>>))

\* the storage as it would be had the index at place i of a table never been
\* created: the same data file and catalog without the index and its file
WithoutIndex(table_name, i) ==
    drop_index(Cur, table_name, metadata[table_name].indexes[i].name).state

\* C27: create_index commutes with insert_row. The file of every index, filled
\* entry by entry by the inserts made since the index was created, holds the
\* same keys and offsets in the same order as the file create_index writes when
\* the index is created only now, after all the rows were inserted.
C27_CreateIndexCommutesWithInsert ==
    \A table_name \in DOMAIN metadata :
        \A i \in 1..Len(metadata[table_name].indexes) :
            LET index == metadata[table_name].indexes[i]
                created_last == create_index(WithoutIndex(table_name, i), table_name,
                                             index.name, index.columns).state
            IN  index.file_path \in DOMAIN files =>
                    /\ index.file_path \in DOMAIN created_last.files
                    /\ created_last.files[index.file_path] = files[index.file_path]

\* the mutating calls that can be made on table a, each with what it returns
LookupCalls ==
    {[op |-> "create_table", r |-> create_table(Cur, "a", SchemaXY)],
     [op |-> "drop_table", r |-> drop_table(Cur, "a")]}
    \cup {[op |-> "insert_row", r |-> insert_row(Cur, "a", input[1], input[2])] :
             input \in LookupInsertInputs}
    \cup {[op |-> "create_index", r |-> create_index(Cur, input[1], input[2], input[3])] :
             input \in LookupIndexInputs}
    \cup {[op |-> "drop_index", r |-> drop_index(Cur, "a", input[2])] :
             input \in LookupIndexInputs}

\* no write of the given kinds follows a rewrite of the catalog in a call's writes
NoneAfterCatalog(writes, kinds) ==
    \A i, j \in 1..Len(writes) :
        i < j /\ writes[i].kind = "catalog" => writes[j].kind \notin kinds

\* C28 as stated: in every mutating call no write to a data file or to an index
\* file follows the call's rewrite of the catalog.
C28_FileWritesBeforeCatalog ==
    \A call \in LookupCalls :
        NoneAfterCatalog(call.r.state.writes, {"data", "index"})

\* C28: in every mutating call the data file is created or appended to before
\* the catalog is rewritten, and so is the index file created by create_index;
\* create_table, drop_index and drop_table write to no data or index file after
\* a rewrite of the catalog. The index entries are written after it: insert_row
\* appends the row, rewrites the catalog and then appends one entry to each
\* index of the table; create_index creates the index file, rewrites the
\* catalog and then writes one entry per row of the data file.
C28_IndexEntriesFollowCatalog ==
    \A call \in LookupCalls :
        LET writes == call.r.state.writes
            catalog == [kind |-> "catalog", path |-> "metadata.json"]
        IN  /\ NoneAfterCatalog(writes, {"data"})
            /\ call.op \in {"create_table", "drop_index", "drop_table"} =>
                   NoneAfterCatalog(writes, {"data", "index"})
            /\ call.r.result # "ok" => writes = <<>>
            /\ call.op = "insert_row" /\ call.r.result = "ok" =>
                   LET indexes == metadata["a"].indexes
                   IN  writes = <<[kind |-> "data", path |-> table_path("a")], catalog>>
                                \o [k \in 1..Len(indexes) |->
                                       [kind |-> "index", path |-> indexes[k].file_path]]
            /\ call.op = "create_index" /\ call.r.result = "ok" =>
                   LET created == call.r.state.metadata["a"].indexes
                       index_file == [kind |-> "index",
                                      path |-> created[Len(created)].file_path]
                   IN  writes = <<index_file, catalog>>
                                \o [k \in 1..Len(files[table_path("a")]) |-> index_file]

\* a row was inserted into a table with an index: the next insert writes the
\* data line, the catalog and then the entry of the index
C28_Witness ==
    /\ last.op = "insert_row" /\ last.result = "ok"
    /\ "a" \in DOMAIN metadata
    /\ Len(metadata["a"].indexes) = 1
    /\ Len(files[metadata["a"].indexes[1].file_path]) = 1
    /\ insert_row(Cur, "a", None, <<Integer(1), Real("1.5")>>).state.writes
           = <<[kind |-> "data", path |-> "a.data"],
               [kind |-> "catalog", path |-> "metadata.json"],
               [kind |-> "index", path |-> metadata["a"].indexes[1].file_path]>>

\* the page sizes of the scans: up to one more than the rows a table can hold
MaxPageSize == 4

PageSizes == 1..MaxPageSize

\* the storage with another page size
WithPageSize(p) == [Cur EXCEPT !.page_size = p]

\* lines s .. s+m-1 (counted from 0) of a sequence of rows, fewer at its end
LinesFrom(rows, s, m) ==
    [k \in 1..(IF s >= Len(rows) THEN 0
               ELSE IF s + m > Len(rows) THEN Len(rows) - s ELSE m) |-> rows[s + k]]

\* C29: the full scan does not depend on the page size. For every page size
\* from 1 up and every number of rows (below, at and above a multiple of the
\* page size) the full scan returns every line of the data file once, in file
\* order, and with conditions and a limit returns what the scan with the
\* engine's page size returns; load_rows_paginated(table, s, m) returns lines
\* s .. s+m-1, fewer at the end of the file, in file order.
C29_ScanIndependentOfPageSize ==
    "a" \in DOMAIN metadata =>
        LET stored == StoredRows(Cur, "a")
        IN  /\ \A p \in PageSizes :
                   /\ full_scan(WithPageSize(p), "a", None, None, 0, <<>>) = Rows(stored)
                   /\ \A conditions \in {None, Some(<<IsNotNull("x")>>),
                                         Some(<<Equal("x", Integer(1))>>)},
                         limit \in {None, Some(0), Some(1), Some(2)} :
                          full_scan(WithPageSize(p), "a", conditions, limit, 0, <<>>)
                              = full_scan(Cur, "a", conditions, limit, 0, <<>>)
            /\ \A s \in 0..MaxPageSize, m \in 0..MaxPageSize :
                   load_rows_paginated(Cur, "a", s, m) = Rows(LinesFrom(stored, s, m))

\* three rows were scanned; in pages of two that is a full page, then a page of
\* one row, and the scan returns the three rows in file order
C29_Witness ==
    /\ last.op = "get_rows" /\ last.result = "ok"
    /\ "a" \in DOMAIN metadata
    /\ Keys(StoredRows(Cur, "a"), 1) = <<Integer(3), Integer(1), Null>>
    /\ Len(load_rows_paginated(Cur, "a", 0, 2).rows) = 2
    /\ Keys(load_rows_paginated(Cur, "a", 2, 2).rows, 1) = <<Null>>
    /\ Keys(full_scan(WithPageSize(2), "a", None, None, 0, <<>>).rows, 1)
           = <<Integer(3), Integer(1), Null>>

\* no two registered indexes of a catalog, of one table or of two, share a file
IndexFilesDistinct(m) ==
    \A t, u \in DOMAIN m :
        \A i \in 1..Len(m[t].indexes), j \in 1..Len(m[u].indexes) :
            (t # u \/ i # j) => m[t].indexes[i].file_path # m[u].indexes[j].file_path

\* C33: any two distinct registered (table name, index name) pairs use distinct
\* index files, also when the names hold underscores, and a mutating call on
\* one table leaves the catalog entry, the data file and the index files of
\* every other table as they were.
C33_IndexesAreSeparate ==
    [][/\ IndexFilesDistinct(metadata')
       /\ last'.op \in MutatingCalls =>
              \A u \in (DOMAIN metadata) \ {last'.table} :
                  /\ u \in DOMAIN metadata'
                  /\ metadata'[u] = metadata[u]
                  /\ table_path(u) \in DOMAIN files =>
                         /\ table_path(u) \in DOMAIN files'
                         /\ files'[table_path(u)] = files[table_path(u)]
                  /\ \A i \in 1..Len(metadata[u].indexes) :
                         LET path == metadata[u].indexes[i].file_path
                         IN  path \in DOMAIN files =>
                                 /\ path \in DOMAIN files'
                                 /\ files'[path] = files[path]]_vars

\* C34: a successful insert_row with an explicit column list stores every
\* value it was given: the names of the list are distinct columns of the
\* schema and the stored row holds each value at its column; a list that names
\* a column the schema does not hold, or a column twice, is rejected and no row
\* is written.
C34_NamedValuesAreAllStored ==
    [][(last'.op = "insert_row" /\ "a" \in DOMAIN metadata) =>
           LET names == last'.columns
               schema == metadata["a"].columns
               data == files'[table_path("a")]
               well_named == /\ \A k \in 1..Len(names) : column_position(schema, names[k]) # 0
                             /\ \A j, k \in 1..Len(names) : j # k => names[j] # names[k]
           IN  /\ last'.result = "ok" =>
                   /\ well_named
                   /\ Len(data) = Len(files[table_path("a")]) + 1
                   /\ \A k \in 1..Len(names) :
                          data[Len(data)][column_position(schema, names[k])]
                              = to_json_value(last'.values[k])
               /\ ~well_named =>
                   /\ last'.result # "ok"
                   /\ files' = files]_vars

\* C31: in every catalog state the column names of each table are unique:
\* create_table never registers a table whose column list holds a name twice.
C31_ColumnNamesUnique ==
    \A t \in DOMAIN metadata :
        \A i, j \in 1..Len(metadata[t].columns) :
            i # j => metadata[t].columns[i].name # metadata[t].columns[j].name

\* a token that is a literal: a number, a string, or the keyword NULL, TRUE or FALSE
LiteralToken(token) ==
    \/ token.token_type \in {"NumericLiteral", "StringLiteral"}
    \/ /\ token.token_type = "Keyword"
       /\ to_uppercase(token.value) \in {"NULL", "TRUE", "FALSE"}

\* the lexemes that stand between the column and the value of a comparison or
\* of a LIKE condition
ComparisonLexemes == {"=", "<>", "!=", ">", "<", ">=", "<=", "LIKE"}

\* C35: every comparison or LIKE condition the parser produces takes its value
\* from a literal token: a statement whose WHERE clause has the end marker, an
\* identifier or another token that is no literal in the place of a value does
\* not parse.
C35_ConditionValuesAreLiterals ==
    (last.op = "parse" /\ last.result.result = "ok") =>
        LET tokens == last.result.parser.tokens
        IN  \A w, k \in 1..Len(tokens) :
                (/\ w < k
                 /\ to_uppercase(tokens[w].value) = "WHERE"
                 /\ to_uppercase(tokens[k].value) \in ComparisonLexemes) =>
                    /\ k < Len(tokens)
                    /\ LiteralToken(tokens[k + 1])

\* Parser::new followed by parse() has returned a Statement or an error
ReturnedStatementOrError ==
    \/ last.op = "parse" /\ last.result.result # "panic"
    \/ last.op = "tokenize" /\ last.result.result \notin {"ok", "panic"}

\* C32: tokenization and parsing always terminate. Every iteration of the
\* tokenizer loop moves the scan position on by at least one byte or returns,
\* the cursor of the parser never passes the number of tokens, and Parser::new
\* followed by parse() reaches a Statement or an error on every input.
C32_ParseAlwaysReturns ==
    /\ [][last'.op = "scan" => last'.position > last.position]_vars
    /\ [](last.op = "parse" /\ last.result.result = "ok" =>
              last.result.parser.current <= Len(last.result.parser.tokens))
    /\ <>ReturnedStatementOrError

====
